---- MODULE Spec2Model ----
(***************************************************************************)
(* A model of xgrammar's structural-tag compiler (cpp/structural_tag.cc):  *)
(* JSON -> typed AST (StructuralTagParser), annotation of the AST          *)
(* (StructuralTagAnalyzer), fingerprinting (FormatFingerprinter) and the   *)
(* lowering to grammar rules (StructuralTagGrammarConverter).              *)
(*                                                                         *)
(* Byte strings are sequences of one-character strings, so that prefixes,  *)
(* concatenation and the delimiter characters of the fingerprints are      *)
(* computed as the code computes them.  A JSON value is [t, v]: t is the   *)
(* JSON type, v a byte string, a BOOLEAN, a sequence of values (array) or  *)
(* a function from field names to values (object).                         *)
(***************************************************************************)
EXTENDS Integers, Sequences, FiniteSets, TLC

VARIABLES json, pc, structural_tag, parsed_tag, error, grammar, stages, conv, rx, an

vars == <<json, pc, structural_tag, parsed_tag, error, grammar, stages, conv, rx, an>>

(***************************************************************************)
(* Results (support/utils.h Result<T, E>): a value or an error message.    *)
(***************************************************************************)
NoFormat == [kind |-> "none"]

ResultOk(v) == [ok |-> TRUE, val |-> v, err |-> ""]

ResultErr(msg) == [ok |-> FALSE, val |-> NoFormat, err |-> msg]

\* The value e, with x evaluated before it: the operands of an operator are
\* evaluated when they are first used, and a loop that hands its result on
\* evaluates it in the order of the code.
Then(x, e) == IF {x} = {} THEN e ELSE e

(***************************************************************************)
(* JSON values (picojson::value).                                          *)
(***************************************************************************)
JString(s) == [t |-> "string", v |-> s]

JBool(b) == [t |-> "bool", v |-> b]

JNumber == [t |-> "number", v |-> 0]

JArray(a) == [t |-> "array", v |-> a]

JObject(o) == [t |-> "object", v |-> o]

EmptyObject == JObject(<<>>)

Has(obj, field) == field \in DOMAIN obj

\* value.is<std::string>() && !value.get<std::string>().empty()
IsNonEmptyString(value) == value.t = "string" /\ value.v # <<>>

\* picojson::value::serialize(false) on the schemas of the model: a boolean
\* or the empty object.
Serialize(value) ==
    IF value.t = "bool"
    THEN IF value.v THEN <<"t", "r", "u", "e">> ELSE <<"f", "a", "l", "s", "e">>
    ELSE <<"{", "}">>

(***************************************************************************)
(* The type strings of ParseFormat.                                        *)
(***************************************************************************)
T_structural_tag == <<"s","t","r","u","c","t","u","r","a","l","_","t","a","g">>
T_const_string == <<"c","o","n","s","t","_","s","t","r","i","n","g">>
T_json_schema == <<"j","s","o","n","_","s","c","h","e","m","a">>
T_any_text == <<"a","n","y","_","t","e","x","t">>
T_sequence == <<"s","e","q","u","e","n","c","e">>
T_or == <<"o","r">>
T_tag == <<"t","a","g">>
T_triggered_tags == <<"t","r","i","g","g","e","r","e","d","_","t","a","g","s">>
T_tags_with_separator ==
    <<"t","a","g","s","_","w","i","t","h","_","s","e","p","a","r","a","t","o","r">>
T_qwen_xml_parameter ==
    <<"q","w","e","n","_","x","m","l","_","p","a","r","a","m","e","t","e","r">>
T_grammar == <<"g","r","a","m","m","a","r">>
T_regex == <<"r","e","g","e","x">>

(***************************************************************************)
(* The Format variants (structural_tag.h), with the fields the code uses.  *)
(***************************************************************************)
ConstStringFormat(value) == [kind |-> "ConstStringFormat", value |-> value]

JSONSchemaFormat(json_schema) ==
    [kind |-> "JSONSchemaFormat", json_schema |-> json_schema]

QwenXmlParameterFormat(xml_schema) ==
    [kind |-> "QwenXmlParameterFormat", xml_schema |-> xml_schema]

AnyTextFormat(excluded_strs) ==
    [kind |-> "AnyTextFormat", excluded_strs |-> excluded_strs,
     detected_end_strs_ |-> <<>>]

GrammarFormat(g) == [kind |-> "GrammarFormat", grammar |-> g]

RegexFormat(pattern, excluded_strs) ==
    [kind |-> "RegexFormat", pattern |-> pattern, excluded_strs |-> excluded_strs]

SequenceFormat(elements) ==
    [kind |-> "SequenceFormat", elements |-> elements, is_unlimited_ |-> FALSE]

OrFormat(elements) ==
    [kind |-> "OrFormat", elements |-> elements, is_unlimited_ |-> FALSE]

TagFormat(begin, content, end) ==
    [kind |-> "TagFormat", begin |-> begin, content |-> content, end |-> end]

TriggeredTagsFormat(triggers, tags, excludes, at_least_one, stop_after_first) ==
    [kind |-> "TriggeredTagsFormat", triggers |-> triggers, tags |-> tags,
     excludes |-> excludes, at_least_one |-> at_least_one,
     stop_after_first |-> stop_after_first, detected_end_strs_ |-> <<>>]

TagsWithSeparatorFormat(tags, separator, at_least_one, stop_after_first) ==
    [kind |-> "TagsWithSeparatorFormat", tags |-> tags, separator |-> separator,
     at_least_one |-> at_least_one, stop_after_first |-> stop_after_first,
     detected_end_strs_ |-> <<>>]

(***************************************************************************)
(* StructuralTagParser.  The RecursionGuard of ParseFormat                 *)
(* (support/recursion_guard.h) limits the nesting to a depth far above the *)
(* documents of this model and is left out.                                *)
(***************************************************************************)
RECURSIVE ParseFormat(_)
RECURSIVE ParseSequenceElements(_, _, _)
RECURSIVE ParseOrElements(_, _, _)
RECURSIVE ParseTagFormat(_)
RECURSIVE ParseTags(_, _, _)

ParseConstStringFormat(obj) ==
    IF ~Has(obj, "value") \/ ~IsNonEmptyString(obj.value)
    THEN ResultErr("ConstString format must have a value field with a non-empty string")
    ELSE ResultOk(ConstStringFormat(obj.value.v))

ParseJSONSchemaFormat(obj) ==
    IF ~Has(obj, "json_schema") \/ ~(obj.json_schema.t \in {"object", "bool"})
    THEN ResultErr("JSON schema format must have a json_schema field with a object or boolean value")
    ELSE ResultOk(JSONSchemaFormat(Serialize(obj.json_schema)))

ParseQwenXmlParameterFormat(obj) ==
    IF ~Has(obj, "json_schema") \/ ~(obj.json_schema.t \in {"object", "bool"})
    THEN ResultErr("Qwen XML Parameter format must have a json_schema field with a object or boolean value")
    ELSE ResultOk(QwenXmlParameterFormat(Serialize(obj.json_schema)))

\* The strings of a JSON array, in order.
StringsOf(array) == [i \in 1..Len(array) |-> array[i].v]

\* ParseAnyTextFormat that accepts an object without excludes whether or not
\* it has a type.
ParseAnyTextFormatWithoutExcludes(obj) ==
    IF ~Has(obj, "excludes")
    THEN ResultOk(AnyTextFormat(<<>>))
    ELSE IF obj.excludes.t # "array"
    THEN ResultErr("AnyText format's excluded_strs field must be an array")
    ELSE IF \E i \in 1..Len(obj.excludes.v) : obj.excludes.v[i].t # "string"
    THEN ResultErr("AnyText format's excluded_strs array must contain strings")
    ELSE ResultOk(AnyTextFormat(StringsOf(obj.excludes.v)))

ParseAnyTextFormat(obj) ==
    IF ~Has(obj, "excludes")
    THEN IF ~Has(obj, "type")
         THEN ResultErr("Any text format should not have any fields other than type")
         ELSE ResultOk(AnyTextFormat(<<>>))
    ELSE IF obj.excludes.t # "array"
    THEN ResultErr("AnyText format's excluded_strs field must be an array")
    ELSE IF \E i \in 1..Len(obj.excludes.v) : obj.excludes.v[i].t # "string"
    THEN ResultErr("AnyText format's excluded_strs array must contain strings")
    ELSE ResultOk(AnyTextFormat(StringsOf(obj.excludes.v)))

ParseGrammarFormat(obj) ==
    IF ~Has(obj, "grammar") \/ ~IsNonEmptyString(obj.grammar)
    THEN ResultErr("Grammar format must have a grammar field with a non-empty string")
    ELSE ResultOk(GrammarFormat(obj.grammar.v))

ParseRegexFormat(obj) ==
    IF ~Has(obj, "pattern") \/ ~IsNonEmptyString(obj.pattern)
    THEN ResultErr("Regex format must have a pattern field with a non-empty string")
    ELSE IF ~Has(obj, "excludes")
    THEN ResultOk(RegexFormat(obj.pattern.v, <<>>))
    ELSE IF obj.excludes.t # "array"
    THEN ResultErr("Regex format's excludes field must be an array")
    ELSE IF \E i \in 1..Len(obj.excludes.v) : ~IsNonEmptyString(obj.excludes.v[i])
    THEN ResultErr("Regex format's excludes array must contain non-empty strings")
    ELSE ResultOk(RegexFormat(obj.pattern.v, StringsOf(obj.excludes.v)))

\* The loop of ParseSequenceFormat without the inlining of nested sequences.
ParseSequenceElementNested(array, i, elements, format) ==
    IF ~format.ok
    THEN ResultErr(format.err)
    ELSE ParseSequenceElements(array, i + 1, Append(elements, format.val))

\* The loop of ParseSequenceFormat over elements_array from index i on:
\* nested sequences are inlined, the first error ends the loop.
ParseSequenceElement(array, i, elements, format) ==
    IF ~format.ok
    THEN ResultErr(format.err)
    ELSE IF format.val.kind = "SequenceFormat"
    THEN ParseSequenceElements(array, i + 1, elements \o format.val.elements)
    ELSE ParseSequenceElements(array, i + 1, Append(elements, format.val))

ParseSequenceElements(array, i, elements) ==
    IF i > Len(array)
    THEN IF Len(elements) = 0
         THEN ResultErr("Sequence format must have at least one element")
         ELSE ResultOk(SequenceFormat(elements))
    ELSE ParseSequenceElement(array, i, elements, ParseFormat(array[i]))

ParseSequenceFormat(obj) ==
    IF ~Has(obj, "elements") \/ obj.elements.t # "array"
    THEN ResultErr("Sequence format must have an elements field with an array")
    ELSE ParseSequenceElements(obj.elements.v, 1, <<>>)

ParseOrElement(array, i, elements, format) ==
    IF ~format.ok
    THEN ResultErr(format.err)
    ELSE ParseOrElements(array, i + 1, Append(elements, format.val))

ParseOrElements(array, i, elements) ==
    IF i > Len(array)
    THEN IF Len(elements) = 0
         THEN ResultErr("Or format must have at least one element")
         ELSE ResultOk(OrFormat(elements))
    ELSE ParseOrElement(array, i, elements, ParseFormat(array[i]))

ParseOrFormat(obj) ==
    IF ~Has(obj, "elements") \/ obj.elements.t # "array"
    THEN ResultErr("Or format must have an elements field with an array")
    ELSE ParseOrElements(obj.elements.v, 1, <<>>)

\* ParseTagFormat once the content is parsed, without the check of an empty
\* end array.
ParseTagFormatEndUnchecked(obj, content) ==
    IF ~content.ok
    THEN ResultErr(content.err)
    ELSE IF ~Has(obj, "end")
    THEN ResultErr("Tag format must have an end field")
    ELSE IF obj.end.t = "string"
    THEN ResultOk(TagFormat(obj.begin.v, content.val, <<obj.end.v>>))
    ELSE IF obj.end.t = "array"
    THEN IF \E i \in 1..Len(obj.end.v) : obj.end.v[i].t # "string"
         THEN ResultErr("Tag format's end array must contain only strings")
         ELSE ResultOk(TagFormat(obj.begin.v, content.val, StringsOf(obj.end.v)))
    ELSE ResultErr("Tag format's end field must be a string or array of strings")

\* ParseTagFormat(const picojson::object&) once the content is parsed.
ParseTagFormatEnd(obj, content) ==
    IF ~content.ok
    THEN ResultErr(content.err)
    ELSE IF ~Has(obj, "end")
    THEN ResultErr("Tag format must have an end field")
    ELSE IF obj.end.t = "string"
    THEN ResultOk(TagFormat(obj.begin.v, content.val, <<obj.end.v>>))
    ELSE IF obj.end.t = "array"
    THEN IF Len(obj.end.v) = 0
         THEN ResultErr("Tag format's end array cannot be empty")
         ELSE IF \E i \in 1..Len(obj.end.v) : obj.end.v[i].t # "string"
         THEN ResultErr("Tag format's end array must contain only strings")
         ELSE ResultOk(TagFormat(obj.begin.v, content.val, StringsOf(obj.end.v)))
    ELSE ResultErr("Tag format's end field must be a string or array of strings")

\* ParseTagFormat(const picojson::object&)
ParseTagFormat(obj) ==
    IF ~Has(obj, "begin") \/ obj.begin.t # "string"
    THEN ResultErr("Tag format's begin field must be a string")
    ELSE IF ~Has(obj, "content")
    THEN ResultErr("Tag format must have a content field")
    ELSE ParseTagFormatEnd(obj, ParseFormat(obj.content))

\* ParseTagFormat(const picojson::value&): the extra check for object and type.
ParseTagFormatValue(value) ==
    IF value.t # "object"
    THEN ResultErr("Tag format must be an object")
    ELSE IF Has(value.v, "type") /\ (value.v.type.t # "string" \/ value.v.type.v # T_tag)
    THEN ResultErr("Tag format's type must be a string \"tag\"")
    ELSE ParseTagFormat(value.v)

\* The loop over tags_array of ParseTriggeredTagsFormat and
\* ParseTagsWithSeparatorFormat: the tags parsed, or the first error.
ParseTag(array, i, tags, tag_format) ==
    IF ~tag_format.ok
    THEN ResultErr(tag_format.err)
    ELSE ParseTags(array, i + 1, Append(tags, tag_format.val))

ParseTags(array, i, tags) ==
    IF i > Len(array)
    THEN ResultOk(tags)
    ELSE ParseTag(array, i, tags, ParseTagFormatValue(array[i]))

\* An optional boolean field: absent gives false.
BoolField(obj, field) == IF Has(obj, field) THEN obj[field].v ELSE FALSE

\* ParseTriggeredTagsFormat once the tags are parsed.
ParseTriggeredTagsOptions(obj, tags) ==
    IF ~tags.ok
    THEN ResultErr(tags.err)
    ELSE IF Len(tags.val) = 0
    THEN ResultErr("Triggered tags format's tags must be non-empty")
    ELSE IF Has(obj, "excludes") /\ obj.excludes.t # "array"
    THEN ResultErr("Triggered tags format should have a excludes field with an array")
    ELSE IF Has(obj, "excludes") /\
            \E i \in 1..Len(obj.excludes.v) : ~IsNonEmptyString(obj.excludes.v[i])
    THEN ResultErr("Triggered tags format's excluded_strs must be non-empty strings")
    ELSE IF Has(obj, "at_least_one") /\ obj.at_least_one.t # "bool"
    THEN ResultErr("at_least_one must be a boolean")
    ELSE IF Has(obj, "stop_after_first") /\ obj.stop_after_first.t # "bool"
    THEN ResultErr("stop_after_first must be a boolean")
    ELSE ResultOk(TriggeredTagsFormat(
             StringsOf(obj.triggers.v), tags.val,
             IF Has(obj, "excludes") THEN StringsOf(obj.excludes.v) ELSE <<>>,
             BoolField(obj, "at_least_one"),
             BoolField(obj, "stop_after_first")))

ParseTriggeredTagsFormat(obj) ==
    IF ~Has(obj, "triggers") \/ obj.triggers.t # "array"
    THEN ResultErr("Triggered tags format must have a triggers field with an array")
    ELSE IF \E i \in 1..Len(obj.triggers.v) : ~IsNonEmptyString(obj.triggers.v[i])
    THEN ResultErr("Triggered tags format's triggers must be non-empty strings")
    ELSE IF Len(obj.triggers.v) = 0
    THEN ResultErr("Triggered tags format's triggers must be non-empty")
    ELSE IF ~Has(obj, "tags") \/ obj.tags.t # "array"
    THEN ResultErr("Triggered tags format must have a tags field with an array")
    ELSE ParseTriggeredTagsOptions(obj, ParseTags(obj.tags.v, 1, <<>>))

\* ParseTagsWithSeparatorFormat once the tags are parsed.
ParseTagsWithSeparatorOptions(obj, tags) ==
    IF ~tags.ok
    THEN ResultErr(tags.err)
    ELSE IF Len(tags.val) = 0
    THEN ResultErr("Tags with separator format's tags must be non-empty")
    ELSE IF ~Has(obj, "separator") \/ obj.separator.t # "string"
    THEN ResultErr("Tags with separator format's separator field must be a string")
    ELSE IF Has(obj, "at_least_one") /\ obj.at_least_one.t # "bool"
    THEN ResultErr("at_least_one must be a boolean")
    ELSE IF Has(obj, "stop_after_first") /\ obj.stop_after_first.t # "bool"
    THEN ResultErr("stop_after_first must be a boolean")
    ELSE ResultOk(TagsWithSeparatorFormat(
             tags.val, obj.separator.v,
             BoolField(obj, "at_least_one"),
             BoolField(obj, "stop_after_first")))

ParseTagsWithSeparatorFormat(obj) ==
    IF ~Has(obj, "tags") \/ obj.tags.t # "array"
    THEN ResultErr("Tags with separator format must have a tags field with an array")
    ELSE ParseTagsWithSeparatorOptions(obj, ParseTags(obj.tags.v, 1, <<>>))

\* if (!format.IsErr()) return format; and otherwise the next variant.
OrElse(format, next) == IF format.ok THEN format ELSE next

\* ParseFormat with a "type" field that infers the variant when the type
\* is not a known one.
ParseTypedFormatOrInferred(obj) ==
    IF obj.type.t # "string"
    THEN ResultErr("Format's type must be a string")
    ELSE CASE obj.type.v = T_const_string -> ParseConstStringFormat(obj)
           [] obj.type.v = T_json_schema -> ParseJSONSchemaFormat(obj)
           [] obj.type.v = T_any_text -> ParseAnyTextFormat(obj)
           [] obj.type.v = T_sequence -> ParseSequenceFormat(obj)
           [] obj.type.v = T_or -> ParseOrFormat(obj)
           [] obj.type.v = T_tag -> ParseTagFormat(obj)
           [] obj.type.v = T_triggered_tags -> ParseTriggeredTagsFormat(obj)
           [] obj.type.v = T_tags_with_separator -> ParseTagsWithSeparatorFormat(obj)
           [] obj.type.v = T_qwen_xml_parameter -> ParseQwenXmlParameterFormat(obj)
           [] obj.type.v = T_grammar -> ParseGrammarFormat(obj)
           [] obj.type.v = T_regex -> ParseRegexFormat(obj)
           [] OTHER -> OrElse(ParseTagFormat(obj),
                       OrElse(ParseConstStringFormat(obj),
                       OrElse(ParseJSONSchemaFormat(obj),
                       OrElse(ParseAnyTextFormat(obj),
                              ResultErr("Format type not recognized")))))

\* ParseFormat with a "type" field: the variant parser the string names.
ParseTypedFormat(obj) ==
    IF obj.type.t # "string"
    THEN ResultErr("Format's type must be a string")
    ELSE CASE obj.type.v = T_const_string -> ParseConstStringFormat(obj)
           [] obj.type.v = T_json_schema -> ParseJSONSchemaFormat(obj)
           [] obj.type.v = T_any_text -> ParseAnyTextFormat(obj)
           [] obj.type.v = T_sequence -> ParseSequenceFormat(obj)
           [] obj.type.v = T_or -> ParseOrFormat(obj)
           [] obj.type.v = T_tag -> ParseTagFormat(obj)
           [] obj.type.v = T_triggered_tags -> ParseTriggeredTagsFormat(obj)
           [] obj.type.v = T_tags_with_separator -> ParseTagsWithSeparatorFormat(obj)
           [] obj.type.v = T_qwen_xml_parameter -> ParseQwenXmlParameterFormat(obj)
           [] obj.type.v = T_grammar -> ParseGrammarFormat(obj)
           [] obj.type.v = T_regex -> ParseRegexFormat(obj)
           [] OTHER -> ResultErr("Format type not recognized")

\* ParseFormat without a "type" field, with ConstString tried before Tag.
ParseUntypedFormatValueFirst(obj) ==
    OrElse(ParseConstStringFormat(obj),
    OrElse(ParseTagFormat(obj),
    OrElse(ParseJSONSchemaFormat(obj),
    OrElse(ParseAnyTextFormat(obj),
    OrElse(ParseSequenceFormat(obj),
    OrElse(ParseOrFormat(obj),
    OrElse(ParseTriggeredTagsFormat(obj),
    OrElse(ParseTagsWithSeparatorFormat(obj),
           ResultErr("Invalid format")))))))))

\* ParseFormat without a "type" field that returns the error of the last
\* variant when none succeeds.
ParseUntypedFormatLastError(obj) ==
    OrElse(ParseTagFormat(obj),
    OrElse(ParseConstStringFormat(obj),
    OrElse(ParseJSONSchemaFormat(obj),
    OrElse(ParseAnyTextFormat(obj),
    OrElse(ParseSequenceFormat(obj),
    OrElse(ParseOrFormat(obj),
    OrElse(ParseTriggeredTagsFormat(obj),
           ParseTagsWithSeparatorFormat(obj))))))))

\* ParseFormat without a "type" field: every variant in turn, Tag first.
ParseUntypedFormat(obj) ==
    OrElse(ParseTagFormat(obj),
    OrElse(ParseConstStringFormat(obj),
    OrElse(ParseJSONSchemaFormat(obj),
    OrElse(ParseAnyTextFormat(obj),
    OrElse(ParseSequenceFormat(obj),
    OrElse(ParseOrFormat(obj),
    OrElse(ParseTriggeredTagsFormat(obj),
    OrElse(ParseTagsWithSeparatorFormat(obj),
           ResultErr("Invalid format")))))))))

ParseFormat(value) ==
    IF value.t # "object"
    THEN ResultErr("Format must be an object")
    ELSE IF Has(value.v, "type")
    THEN ParseTypedFormat(value.v)
    ELSE ParseUntypedFormat(value.v)

\* ParseStructuralTag without the check of the type field.
ParseStructuralTagAnyType(value) ==
    IF value.t # "object"
    THEN ResultErr("Structural tag must be an object")
    ELSE IF ~Has(value.v, "format")
    THEN ResultErr("Structural tag must have a format field")
    ELSE ParseFormat(value.v.format)

ParseStructuralTag(value) ==
    IF value.t # "object"
    THEN ResultErr("Structural tag must be an object")
    ELSE IF Has(value.v, "type") /\
            (value.v.type.t # "string" \/ value.v.type.v # T_structural_tag)
    THEN ResultErr("Structural tag's type must be a string \"structural_tag\"")
    ELSE IF ~Has(value.v, "format")
    THEN ResultErr("Structural tag must have a format field")
    ELSE ParseFormat(value.v.format)

(***************************************************************************)
(* StructuralTagAnalyzer.  The analyzer changes the AST in place and keeps *)
(* a stack of pointers to the formats being visited.  Here a pointer is    *)
(* the path of the format from the root (a sequence of steps into          *)
(* elements, content or tags), and every visit takes the whole AST and     *)
(* returns it changed, with the error if there is one.                     *)
(***************************************************************************)
Step(f, i) == [f |-> f, i |-> i]

Child(node, step) ==
    CASE step.f = "elements" -> node.elements[step.i]
      [] step.f = "tags" -> node.tags[step.i]
      [] step.f = "content" -> node.content

RECURSIVE GetAt(_, _)
GetAt(root, path) ==
    IF path = <<>> THEN root ELSE GetAt(Child(root, Head(path)), Tail(path))

SetChild(root, step, sub) ==
    CASE step.f = "elements" -> [root EXCEPT !.elements[step.i] = sub]
      [] step.f = "tags" -> [root EXCEPT !.tags[step.i] = sub]
      [] step.f = "content" -> [root EXCEPT !.content = sub]

RECURSIVE SetAt(_, _, _)
SetAt(root, path, node) ==
    IF path = <<>>
    THEN node
    ELSE SetChild(root, Head(path), SetAt(Child(root, Head(path)), Tail(path), node))

\* std::optional<ISTError> with the AST as the visit leaves it.
NoError(root) == [has_value |-> FALSE, err |-> "", root |-> root]

ISTError(msg, root) == [has_value |-> TRUE, err |-> msg, root |-> root]

RECURSIVE DetectEndStringsFrom(_, _, _)
DetectEndStringsFrom(root, stack_, i) ==
    IF i < 1
    THEN <<>>
    ELSE IF GetAt(root, stack_[i]).kind = "TagFormat"
    THEN GetAt(root, stack_[i]).end
    ELSE DetectEndStringsFrom(root, stack_, i - 1)

\* DetectEndStrings with the stack searched from the bottom: the end of the
\* outermost enclosing Tag.
RECURSIVE DetectOutermostFrom(_, _, _)
DetectOutermostFrom(root, stack_, i) ==
    IF i > Len(stack_)
    THEN <<>>
    ELSE IF GetAt(root, stack_[i]).kind = "TagFormat"
    THEN GetAt(root, stack_[i]).end
    ELSE DetectOutermostFrom(root, stack_, i + 1)

DetectOutermostEndStrings(root, stack_) == DetectOutermostFrom(root, stack_, 1)

DetectEndStrings(root, stack_) == DetectEndStringsFrom(root, stack_, Len(stack_))

\* IsUnlimited without the flags of Sequence and Or.
IsUnlimitedLeaf(format) ==
    format.kind \in {"AnyTextFormat", "TriggeredTagsFormat", "TagsWithSeparatorFormat"}

IsUnlimited(format) ==
    CASE format.kind \in {"AnyTextFormat", "TriggeredTagsFormat", "TagsWithSeparatorFormat"}
           -> TRUE
      [] format.kind \in {"SequenceFormat", "OrFormat"} -> format.is_unlimited_
      [] OTHER -> FALSE

RECURSIVE AnalyzerVisit(_, _, _)
RECURSIVE VisitSequenceElements(_, _, _, _)
RECURSIVE VisitOrElements(_, _, _, _, _, _)
RECURSIVE VisitTags(_, _, _, _)

\* The format a pointer of the analyzer points to, and a member set through it.
SetDetectedEndStrs(root, path, detected_end_strs_) ==
    SetAt(root, path, [GetAt(root, path) EXCEPT !.detected_end_strs_ = detected_end_strs_])

SetIsUnlimited(root, path, is_unlimited_) ==
    SetAt(root, path, [GetAt(root, path) EXCEPT !.is_unlimited_ = is_unlimited_])

ElementPath(path, i) == Append(path, Step("elements", i))

\* VisitSub(AnyTextFormat*) that clears the excluded strings as well.
AnalyzerVisitSubAnyTextClearing(root, path, stack_) ==
    NoError(SetAt(root, path,
        [GetAt(root, path) EXCEPT !.detected_end_strs_ = DetectEndStrings(root, stack_),
                                  !.excluded_strs = <<>>]))

\* VisitSub(AnyTextFormat*)
AnalyzerVisitSubAnyText(root, path, stack_) ==
    NoError(SetDetectedEndStrs(root, path, DetectEndStrings(root, stack_)))

\* The body of the loop of VisitSub(SequenceFormat*) for element i (1-based)
\* once the element is visited, and the visit of the last element.
VisitedSequenceElement(err, path, stack_, i) ==
    IF err.has_value
    THEN err
    ELSE IF i < Len(GetAt(err.root, path).elements)
    THEN IF IsUnlimited(GetAt(err.root, ElementPath(path, i)))
         THEN ISTError("Only the last element in a sequence can be unlimited", err.root)
         ELSE VisitSequenceElements(err.root, path, stack_, i + 1)
    ELSE NoError(SetIsUnlimited(err.root, path,
             IsUnlimited(GetAt(err.root, ElementPath(path, i)))))

VisitSequenceElements(root, path, stack_, i) ==
    VisitedSequenceElement(AnalyzerVisit(root, ElementPath(path, i), stack_), path, stack_, i)

AnalyzerVisitSubSequence(root, path, stack_) ==
    VisitSequenceElements(root, path, stack_, 1)

\* The body of the loop of VisitSub(OrFormat*) once element i is visited.
VisitedOrElement(err, path, stack_, i, is_any_unlimited, is_all_unlimited) ==
    IF err.has_value
    THEN err
    ELSE VisitOrElements(err.root, path, stack_, i + 1,
             is_any_unlimited \/ IsUnlimited(GetAt(err.root, ElementPath(path, i))),
             is_all_unlimited /\ IsUnlimited(GetAt(err.root, ElementPath(path, i))))

\* The loop of VisitSub(OrFormat*) from element i on, and the check after it.
VisitOrElements(root, path, stack_, i, is_any_unlimited, is_all_unlimited) ==
    IF i > Len(GetAt(root, path).elements)
    THEN IF is_any_unlimited /\ ~is_all_unlimited
         THEN ISTError("Now we only support all elements in an or format to be unlimited or all limited", root)
         ELSE NoError(SetIsUnlimited(root, path, is_any_unlimited))
    ELSE VisitedOrElement(AnalyzerVisit(root, ElementPath(path, i), stack_),
             path, stack_, i, is_any_unlimited, is_all_unlimited)

AnalyzerVisitSubOr(root, path, stack_) ==
    VisitOrElements(root, path, stack_, 1, FALSE, TRUE)

\* VisitSub(TagFormat*) once the content is visited, without the check that
\* an end string is non-empty.
VisitedTagContentUnchecked(err, path, format) ==
    IF err.has_value
    THEN err
    ELSE IF IsUnlimited(format.content)
    THEN NoError(SetAt(err.root, path, [format EXCEPT !.end = <<>>]))
    ELSE NoError(err.root)

\* VisitSub(TagFormat*) once the content is visited: format is the tag.
VisitedTagContent(err, path, format) ==
    IF err.has_value
    THEN err
    ELSE IF IsUnlimited(format.content)
    THEN IF ~(\E i \in 1..Len(format.end) : format.end[i] # <<>>)
         THEN ISTError("When the content is unlimited, at least one end string must be non-empty", err.root)
         ELSE NoError(SetAt(err.root, path, [format EXCEPT !.end = <<>>]))
    ELSE NoError(err.root)

VisitedTag(err, path) == VisitedTagContent(err, path, GetAt(err.root, path))

\* VisitSub(TagFormat*)
AnalyzerVisitSubTag(root, path, stack_) ==
    VisitedTag(AnalyzerVisit(root, Append(path, Step("content", 0)), stack_), path)

VisitedTagOf(err, path, stack_, i) ==
    IF err.has_value THEN err ELSE VisitTags(err.root, path, stack_, i + 1)

\* The loop over format->tags of VisitSub(TriggeredTagsFormat*) and
\* VisitSub(TagsWithSeparatorFormat*).
VisitTags(root, path, stack_, i) ==
    IF i > Len(GetAt(root, path).tags)
    THEN NoError(root)
    ELSE VisitedTagOf(AnalyzerVisit(root, Append(path, Step("tags", i)), stack_),
             path, stack_, i)

VisitedTags(err, path, stack_) ==
    IF err.has_value
    THEN err
    ELSE NoError(SetDetectedEndStrs(err.root, path, DetectEndStrings(err.root, stack_)))

\* VisitSub(TriggeredTagsFormat*)
AnalyzerVisitSubTriggeredTags(root, path, stack_) ==
    VisitedTags(VisitTags(root, path, stack_, 1), path, stack_)

\* VisitSub(TagsWithSeparatorFormat*)
AnalyzerVisitSubTagsWithSeparator(root, path, stack_) ==
    VisitedTags(VisitTags(root, path, stack_, 1), path, stack_)

AnalyzerVisitSub(root, path, stack_, kind) ==
    CASE kind = "AnyTextFormat" -> AnalyzerVisitSubAnyText(root, path, stack_)
      [] kind = "SequenceFormat" -> AnalyzerVisitSubSequence(root, path, stack_)
      [] kind = "OrFormat" -> AnalyzerVisitSubOr(root, path, stack_)
      [] kind = "TagFormat" -> AnalyzerVisitSubTag(root, path, stack_)
      [] kind = "TriggeredTagsFormat" -> AnalyzerVisitSubTriggeredTags(root, path, stack_)
      [] kind = "TagsWithSeparatorFormat" ->
             AnalyzerVisitSubTagsWithSeparator(root, path, stack_)
      [] OTHER -> NoError(root)

\* Visit(FormatPtrVariant): push the format, dispatch on its variant, pop.
\* stack is the stack before the push; the callee works on the pushed one.
AnalyzerVisit(root, path, stack) ==
    AnalyzerVisitSub(root, path, Append(stack, path), GetAt(root, path).kind)

\* StructuralTagAnalyzer::Analyze
Analyze(format) == AnalyzerVisit(format, <<>>, <<>>)

(***************************************************************************)
(* The documents the compiler is run on: the wire format of the JSON       *)
(* input, every variant with and without "type", well-formed and not,      *)
(* nested up to three levels.                                              *)
(***************************************************************************)
MaxElements == 2

\* The documents are kept in sequences.
Map(A, Op(_)) == [i \in 1..Len(A) |-> Op(A[i])]

Cross(A, B, Op(_, _)) ==
    [i \in 1..(Len(A) * Len(B)) |->
        Op(A[((i - 1) \div Len(B)) + 1], B[((i - 1) % Len(B)) + 1])]

RECURSIVE FlattenRange(_, _, _)
FlattenRange(seqs, lo, hi) ==
    IF lo > hi THEN <<>>
    ELSE IF lo = hi THEN seqs[lo]
    ELSE FlattenRange(seqs, lo, (lo + hi) \div 2)
             \o FlattenRange(seqs, ((lo + hi) \div 2) + 1, hi)

Flatten(seqs) == FlattenRange(seqs, 1, Len(seqs))

RECURSIVE ArraysOfLen(_, _)
ArraysOfLen(S, k) ==
    IF k = 0 THEN <<<<>>>> ELSE Cross(ArraysOfLen(S, k - 1), S, LAMBDA a, x : Append(a, x))

Arrays(S, n) == Flatten([k \in 1..(n + 1) |-> ArraysOfLen(S, k - 1)])

NonEmptyArrays(S, n) == Flatten([k \in 1..n |-> ArraysOfLen(S, k)])

Typed(type, obj) == JObject(("type" :> JString(type)) @@ obj)

Untyped(obj) == JObject(obj)

JStrings(strs) == JArray([i \in 1..Len(strs) |-> JString(strs[i])])

ConstStringJson(s) == Typed(T_const_string, [value |-> JString(s)])

AnyTextJson == Typed(T_any_text, EmptyObject.v)

TagFields(begin, content, end) ==
    [begin |-> JString(begin), content |-> content, end |-> end]

\* The end fields a tag is given: a string, arrays of strings, and the
\* ill-formed ones.
GoodEnds ==
    <<JString(<<"c">>), JStrings(<<<<"c">>, <<"d">>>>), JStrings(<<<<>>, <<"c">>>>)>>

EmptyEnds == <<JString(<<>>), JStrings(<<<<>>, <<>>>>)>>

BadEnds == <<JArray(<<>>), JNumber, JArray(<<JString(<<"c">>), JNumber>>)>>

LeafJson ==
    << ConstStringJson(<<"a">>),
       ConstStringJson(<<"b">>),
       Untyped([value |-> JString(<<"a">>)]),
       ConstStringJson(<<>>),
       Typed(T_const_string, EmptyObject.v),
       Typed(T_const_string, [value |-> JNumber]),
       Typed(T_json_schema, [json_schema |-> JBool(TRUE)]),
       Typed(T_json_schema, [json_schema |-> EmptyObject]),
       Untyped([json_schema |-> EmptyObject]),
       Typed(T_json_schema, [json_schema |-> JString(<<"a">>)]),
       Typed(T_qwen_xml_parameter, [json_schema |-> EmptyObject]),
       Untyped([json_schema |-> JBool(FALSE), value |-> JString(<<"a">>)]),
       AnyTextJson,
       Typed(T_any_text, [excludes |-> JStrings(<<<<"a">>>>)]),
       Typed(T_any_text, [value |-> JString(<<"a">>)]),
       Typed(T_any_text, [excludes |-> JNumber]),
       Typed(T_any_text, [excludes |-> JArray(<<JNumber>>)]),
       Untyped([excludes |-> JStrings(<<<<"a">>, <<>>>>)]),
       Untyped([excludes |-> JStrings(<<>>)]),
       Untyped([excludes |-> JNumber]),
       EmptyObject,
       Typed(T_grammar, [grammar |-> JString(<<"a">>)]),
       Typed(T_grammar, [grammar |-> JString(<<>>)]),
       Untyped([grammar |-> JString(<<"a">>)]),
       Typed(T_regex, [pattern |-> JString(<<"a", "*">>)]),
       Typed(T_regex, [pattern |-> JString(<<"a", "*">>),
                       excludes |-> JStrings(<<<<"a", "a">>>>)]),
       Typed(T_regex, [pattern |-> JString(<<"a", "*">>),
                       excludes |-> JStrings(<<<<>>>>)]),
       Typed(T_regex, [pattern |-> JString(<<>>)]),
       Untyped([pattern |-> JString(<<"a", "*">>)]),
       Untyped([pattern |-> JString(<<"a", "*">>), excludes |-> JStrings(<<<<"a">>>>)]),
       Typed(<<"f", "o", "o">>, [value |-> JString(<<"a">>)]),
       JObject([type |-> JBool(TRUE), value |-> JString(<<"a">>)]),
       JObject([type |-> JNumber, excludes |-> JStrings(<<>>)]),
       Typed(T_const_string, TagFields(<<"a">>, AnyTextJson, JString(<<"c">>))),
       Typed(T_tag, [value |-> JString(<<"a">>)]),
       Typed(T_structural_tag, [value |-> JString(<<"a">>)]),
       JString(<<"a">>),
       JArray(<<>>) >>

\* The formats that are nested: a limited one, unlimited ones, a wrong one.
Kids0 ==
    << ConstStringJson(<<"a">>),
       AnyTextJson,
       Untyped([excludes |-> JStrings(<<<<"b">>>>)]),
       Typed(T_const_string, EmptyObject.v) >>

ElementsJson(type, S) ==
    Map(Arrays(S, MaxElements), LAMBDA a : Typed(type, [elements |-> JArray(a)]))
    \o Map(Arrays(S, MaxElements), LAMBDA a : Untyped([elements |-> JArray(a)]))

TagJson(Begins, Contents, Ends) ==
    Flatten(Map(Begins, LAMBDA b :
        Cross(Contents, Ends, LAMBDA c, e : Typed(T_tag, TagFields(b, c, e)))
        \o Cross(Contents, Ends, LAMBDA c, e : Untyped(TagFields(b, c, e)))))

\* Tags that lack a field, or are also something else.
OddTagJson(Contents) ==
    Flatten(Map(Contents, LAMBDA c :
        << Untyped([begin |-> JString(<<"a">>), content |-> c]),
           Untyped([begin |-> JString(<<"a">>), end |-> JString(<<"c">>)]),
           Untyped([begin |-> JNumber, content |-> c, end |-> JString(<<"c">>)]),
           Untyped(TagFields(<<"a">>, c, JString(<<"c">>)) @@
                   [value |-> JString(<<"a">>)]),
           Untyped(TagFields(<<"a">>, c, JArray(<<>>)) @@
                   [value |-> JString(<<"a">>)]),
           Untyped(TagFields(<<"a">>, c, JString(<<"c">>)) @@
                   [elements |-> JArray(<<c>>), excludes |-> JStrings(<<>>)]),
           Untyped([content |-> c, end |-> JString(<<"c">>),
                    elements |-> JArray(<<c>>), json_schema |-> JBool(TRUE)]) >>))

Flags == <<EmptyObject.v, [at_least_one |-> JBool(TRUE)], [stop_after_first |-> JBool(TRUE)],
           [at_least_one |-> JBool(TRUE), stop_after_first |-> JBool(TRUE)]>>

TriggeredTagsJson(Triggers, TagArrays) ==
    Flatten(Map(Triggers, LAMBDA t :
        Cross(TagArrays, Flags, LAMBDA a, f :
            Typed(T_triggered_tags, [triggers |-> JStrings(t), tags |-> JArray(a)] @@ f))))

TagsWithSeparatorJson(Separators, TagArrays) ==
    Flatten(Map(Separators, LAMBDA s :
        Cross(TagArrays, Flags, LAMBDA a, f :
            Typed(T_tags_with_separator,
                  [separator |-> JString(s), tags |-> JArray(a)] @@ f))))

\* Tags as they appear in a tags array: with limited and unlimited content.
TagsOf(Contents) ==
    Cross(<<<<"a", "b">>, <<"b">>>>, Contents,
          LAMBDA b, c : JObject(TagFields(b, c, JString(<<"c">>))))

OddTagsJson ==
    << Typed(T_triggered_tags, [triggers |-> JStrings(<<>>),
           tags |-> JArray(<<JObject(TagFields(<<"a">>, AnyTextJson, JString(<<"c">>)))>>)]),
       Typed(T_triggered_tags, [triggers |-> JStrings(<<<<>>>>),
           tags |-> JArray(<<JObject(TagFields(<<"a">>, AnyTextJson, JString(<<"c">>)))>>)]),
       Typed(T_triggered_tags, [triggers |-> JStrings(<<<<"a">>>>), tags |-> JArray(<<>>)]),
       Typed(T_triggered_tags, [triggers |-> JStrings(<<<<"a">>>>),
           tags |-> JArray(<<Typed(T_or, TagFields(<<"a">>, AnyTextJson, JString(<<"c">>)))>>)]),
       Typed(T_triggered_tags, [triggers |-> JStrings(<<<<"a">>>>),
           tags |-> JArray(<<Typed(T_tag, TagFields(<<"a">>, AnyTextJson, JString(<<"c">>)))>>),
           excludes |-> JStrings(<<<<"d">>>>), at_least_one |-> JNumber]),
       Typed(T_triggered_tags, [triggers |-> JStrings(<<<<"a">>>>),
           tags |-> JArray(<<JObject(TagFields(<<"a">>, AnyTextJson, JString(<<"c">>)))>>),
           excludes |-> JStrings(<<<<>>>>)]),
       Untyped([triggers |-> JStrings(<<<<"a">>>>), separator |-> JString(<<",">>),
           tags |-> JArray(<<JObject(TagFields(<<"a">>, AnyTextJson, JString(<<"c">>)))>>)]),
       Untyped([separator |-> JString(<<",">>),
           tags |-> JArray(<<JObject(TagFields(<<"a">>, AnyTextJson, JString(<<"c">>)))>>)]),
       Untyped([separator |-> JString(<<",">>), tags |-> JArray(<<>>)]),
       Typed(T_tags_with_separator,
           [tags |-> JArray(<<JObject(TagFields(<<"a">>, AnyTextJson, JString(<<"c">>)))>>)]),
       Typed(T_tags_with_separator, [separator |-> JString(<<",">>),
           tags |-> JArray(<<JObject(TagFields(<<"a">>, AnyTextJson, JString(<<"c">>)))>>),
           stop_after_first |-> JString(<<"a">>)]) >>

Level1Json ==
    ElementsJson(T_sequence, Kids0) \o ElementsJson(T_or, Kids0)
    \o TagJson(<<<<"a">>>>, Kids0, GoodEnds \o EmptyEnds \o BadEnds)
    \o OddTagJson(<<ConstStringJson(<<"a">>), EmptyObject>>)
    \o TriggeredTagsJson(<<<<<<"a">>>>, <<<<"a">>, <<"a", "b">>>>>>,
           NonEmptyArrays(TagsOf(<<ConstStringJson(<<"a">>), AnyTextJson>>), MaxElements))
    \o TriggeredTagsJson(<<<<<<"a">>, <<"b">>>>>>,
           NonEmptyArrays(TagsOf(<<ConstStringJson(<<"a">>)>>), MaxElements))
    \o TagsWithSeparatorJson(<<<<>>, <<",">>>>,
           NonEmptyArrays(TagsOf(<<ConstStringJson(<<"a">>)>>), MaxElements))
    \o OddTagsJson

\* The nested formats of the second level.
TriggerA(tags) == Typed(T_triggered_tags,
    [triggers |-> JStrings(<<<<"a">>>>), tags |-> JArray(tags),
     at_least_one |-> JBool(TRUE), stop_after_first |-> JBool(TRUE)])

TagAB(content) == JObject(TagFields(<<"a", "b">>, content, JString(<<"c">>)))

Kids1 ==
    << ConstStringJson(<<"a">>),
       AnyTextJson,
       Typed(T_sequence, [elements |-> JArray(<<ConstStringJson(<<"a">>), AnyTextJson>>)]),
       Typed(T_sequence, [elements |-> JArray(<<ConstStringJson(<<"a">>), ConstStringJson(<<"b">>)>>)]),
       Typed(T_or, [elements |-> JArray(<<AnyTextJson, Untyped([excludes |-> JStrings(<<<<"b">>>>)])>>)]),
       Typed(T_tag, TagFields(<<"a">>, AnyTextJson, JStrings(<<<<>>, <<"c">>>>))),
       TriggerA(<<TagAB(ConstStringJson(<<"a">>))>>),
       TriggerA(<<TagAB(ConstStringJson(<<"b">>))>>),
       TriggerA(<<JObject(TagFields(<<"b">>, ConstStringJson(<<"b">>), JString(<<"c">>)))>>),
       Typed(T_tags_with_separator, [separator |-> JString(<<",">>),
           tags |-> JArray(<<JObject(TagFields(<<"a">>, AnyTextJson, JString(<<"c">>)))>>)]) >>

Level2Json ==
    ElementsJson(T_sequence, Kids1) \o ElementsJson(T_or, Kids1)
    \o TagJson(<<<<"a">>>>, Kids1, GoodEnds \o EmptyEnds)
    \o TriggeredTagsJson(<<<<<<"a">>>>>>, NonEmptyArrays(TagsOf(Kids1), 1))
    \o TagsWithSeparatorJson(<<<<",">>>>, NonEmptyArrays(TagsOf(Kids1), 1))

\* Third level: the formats of the second level inside a tag, a sequence
\* or an or.
Level3Json ==
    Flatten(Map(
        Cross(Kids1, GoodEnds, LAMBDA c, e : Typed(T_tag, TagFields(<<"b">>, c, e)))
            \o ElementsJson(T_or, Kids1),
        LAMBDA k :
            << Typed(T_tag, TagFields(<<"a">>, k, JStrings(<<<<"d">>, <<>>>>))),
               Typed(T_sequence, [elements |-> JArray(<<k, ConstStringJson(<<"b">>)>>)]),
               Typed(T_sequence, [elements |-> JArray(<<ConstStringJson(<<"b">>), k>>)]),
               Typed(T_or, [elements |-> JArray(<<k, AnyTextJson>>)]) >>))

\* Triggered tags inside the tags of triggered tags with the same triggers
\* and flags, beside a copy of the inner one.
DeepJson ==
    Flatten(Map(<<TriggerA(<<TagAB(ConstStringJson(<<"a">>))>>),
                  TriggerA(<<TagAB(ConstStringJson(<<"b">>))>>)>>,
        LAMBDA inner :
            << Typed(T_tag, TagFields(<<"a">>,
                   Typed(T_or, [elements |-> JArray(<<TriggerA(<<TagAB(inner)>>), inner>>)]),
                   JString(<<"c">>))),
               Typed(T_or, [elements |-> JArray(<<TriggerA(<<TagAB(inner)>>), inner>>)]),
               TriggerA(<<TagAB(inner), TagAB(TriggerA(<<TagAB(ConstStringJson(<<"a">>))>>))>>)
            >>))

\* Constant strings that hold the delimiters of the fingerprints, beside
\* the formats whose fingerprints they spell.
DelimiterJson ==
    << Typed(T_or, [elements |-> JArray(
           << Typed(T_sequence, [elements |->
                  JArray(<<ConstStringJson(<<"a">>), ConstStringJson(<<"b">>)>>)]),
              Typed(T_sequence, [elements |->
                  JArray(<<ConstStringJson(<<"a", ",", "C", "S", ":", "b">>)>>)]) >>)]),
       Typed(T_or, [elements |-> JArray(
           << Typed(T_sequence, [elements |->
                  JArray(<<ConstStringJson(<<"a", ",", "C", "S", ":", "b">>)>>)]),
              ConstStringJson(<<"a", ",", "b">>) >>)]) >>

FormatJson == LeafJson \o Level1Json \o Level2Json \o Level3Json \o DeepJson \o DelimiterJson

\* The documents: a format in a structural tag, and the ill-formed tops.
Documents ==
    Map(FormatJson, LAMBDA f : [valid |-> TRUE, value |-> JObject([format |-> f])])
    \o Map(LeafJson, LAMBDA f :
               [valid |-> TRUE, value |-> Typed(T_structural_tag, [format |-> f])])
    \o Map(<< Typed(T_tag, [format |-> AnyTextJson]),
              JObject([type |-> JNumber, format |-> AnyTextJson]),
              Typed(T_structural_tag, EmptyObject.v),
              EmptyObject, JString(<<"a">>), JArray(<<AnyTextJson>>) >>,
           LAMBDA v : [valid |-> TRUE, value |-> v])
    \o <<[valid |-> FALSE, value |-> JNumber]>>

(***************************************************************************)
(* FormatFingerprinter.                                                    *)
(***************************************************************************)
\* s + sep for every s of strs, concatenated.
RECURSIVE JoinEach(_, _)
JoinEach(strs, sep) ==
    IF strs = <<>> THEN <<>> ELSE Head(strs) \o sep \o JoinEach(Tail(strs), sep)

\* std::to_string of a bool (promoted to int).
to_string(b) == IF b THEN <<"1">> ELSE <<"0">>

RECURSIVE ComputeImpl(_)
RECURSIVE FingerprintElements(_)

\* ComputeImpl(element) + "," for every element.
FingerprintElements(elements) ==
    IF elements = <<>>
    THEN <<>>
    ELSE ComputeImpl(Head(elements)) \o <<",">> \o FingerprintElements(Tail(elements))

FingerprintConstString(format) == <<"C", "S", ":">> \o format.value

FingerprintJSONSchema(format) == <<"J", "S", ":">> \o format.json_schema

FingerprintQwenXmlParameter(format) == <<"Q", "X", ":">> \o format.xml_schema

FingerprintAnyText(format) ==
    <<"A", "T", ":">> \o JoinEach(format.excluded_strs, <<"|">>)
        \o <<"E", ":">> \o JoinEach(format.detected_end_strs_, <<"|">>)

FingerprintGrammar(format) == <<"G", "R", ":">> \o format.grammar

FingerprintRegex(format) ==
    <<"R", "X", ":">> \o format.pattern
        \o (IF format.excluded_strs # <<>>
            THEN <<":", "X", ":">> \o JoinEach(format.excluded_strs, <<"|">>)
            ELSE <<>>)

FingerprintSequence(format) ==
    <<"S", "Q", "[">> \o FingerprintElements(format.elements) \o <<"]">>

FingerprintOr(format) ==
    <<"O", "R", "[">> \o FingerprintElements(format.elements) \o <<"]">>

FingerprintTag(format) ==
    <<"T", "G", ":">> \o format.begin \o <<":", "{">> \o ComputeImpl(format.content)
        \o <<"}", ":">> \o JoinEach(format.end, <<"|">>)

FingerprintTriggeredTags(format) ==
    <<"T", "T", ":">> \o JoinEach(format.triggers, <<",">>) \o <<":">>
        \o to_string(format.at_least_one) \o <<",">> \o to_string(format.stop_after_first)

FingerprintTagsWithSeparator(format) ==
    <<"T", "S", ":">> \o format.separator \o <<":">>
        \o to_string(format.at_least_one) \o <<",">> \o to_string(format.stop_after_first)

ComputeImpl(format) ==
    CASE format.kind = "ConstStringFormat" -> FingerprintConstString(format)
      [] format.kind = "JSONSchemaFormat" -> FingerprintJSONSchema(format)
      [] format.kind = "QwenXmlParameterFormat" -> FingerprintQwenXmlParameter(format)
      [] format.kind = "AnyTextFormat" -> FingerprintAnyText(format)
      [] format.kind = "GrammarFormat" -> FingerprintGrammar(format)
      [] format.kind = "RegexFormat" -> FingerprintRegex(format)
      [] format.kind = "SequenceFormat" -> FingerprintSequence(format)
      [] format.kind = "OrFormat" -> FingerprintOr(format)
      [] format.kind = "TagFormat" -> FingerprintTag(format)
      [] format.kind = "TriggeredTagsFormat" -> FingerprintTriggeredTags(format)
      [] format.kind = "TagsWithSeparatorFormat" -> FingerprintTagsWithSeparator(format)

\* FormatFingerprinter::Compute
Compute(format) == ComputeImpl(format)

(***************************************************************************)
(* GrammarBuilder (grammar_builder.h): the rules and the expressions added *)
(* so far.  Ids count from 0; an operation returns the builder it leaves   *)
(* and the id of what it added.                                            *)
(***************************************************************************)
EmptyBuilder == [rules |-> <<>>, exprs |-> <<>>]

NoBody == 0 - 1

AddExpr(gb, expr) ==
    [gb |-> [gb EXCEPT !.exprs = Append(@, expr)], id |-> Len(gb.exprs)]

AddByteString(gb, bytes) == AddExpr(gb, [type |-> "byte_string", bytes |-> bytes])

AddEmptyStr(gb) == AddExpr(gb, [type |-> "empty_str"])

AddCharacterClass(gb, min, max) ==
    AddExpr(gb, [type |-> "character_class", min |-> min, max |-> max])

AddCharacterClassStar(gb, min, max) ==
    AddExpr(gb, [type |-> "character_class_star", min |-> min, max |-> max])

AddRuleRef(gb, rule_id) == AddExpr(gb, [type |-> "rule_ref", rule_id |-> rule_id])

AddSequence(gb, elements) == AddExpr(gb, [type |-> "sequence", elements |-> elements])

AddChoices(gb, choices) == AddExpr(gb, [type |-> "choices", choices |-> choices])

AddTagDispatch(gb, tag_dispatch) ==
    AddExpr(gb, [type |-> "tag_dispatch", tag_dispatch |-> tag_dispatch])

\* Grammar::Impl::TagDispatch
TagDispatch(tag_rule_pairs, stop_eos, stop_str, loop_after_dispatch, excludes) ==
    [tag_rule_pairs |-> tag_rule_pairs, stop_eos |-> stop_eos, stop_str |-> stop_str,
     loop_after_dispatch |-> loop_after_dispatch, excludes |-> excludes]

AddRuleWithHint(gb, name, body_expr_id) ==
    [gb |-> [gb EXCEPT !.rules = Append(@, [name |-> name, body |-> body_expr_id])],
     id |-> Len(gb.rules)]

AddEmptyRuleWithHint(gb, name) == AddRuleWithHint(gb, name, NoBody)

UpdateRuleBody(gb, rule_id, body_expr_id) ==
    [gb EXCEPT !.rules[rule_id + 1].body = body_expr_id]

\* An operation applied to the expression another one has just added, as in
\* AddSequence({AddEmptyStr()}): expr is the builder and the id of it.
AddSequenceOf(expr) == AddSequence(expr.gb, <<expr.id>>)

AddChoicesOf(expr) == AddChoices(expr.gb, <<expr.id>>)

AddRuleOf(expr, name) == AddRuleWithHint(expr.gb, name, expr.id)

AddRuleRefOf(rule) == AddRuleRef(rule.gb, rule.id)

UpdateRuleBodyOf(expr, rule_id) == UpdateRuleBody(expr.gb, rule_id, expr.id)

\* A std::vector of expression ids under construction, with the builder as
\* the additions so far leave it.
NewVector(gb) == [gb |-> gb, ids |-> <<>>]

VectorOf(expr) == [gb |-> expr.gb, ids |-> <<expr.id>>]

push_back(vector, expr) == [gb |-> expr.gb, ids |-> Append(vector.ids, expr.id)]

PushId(vector, id) == [vector EXCEPT !.ids = Append(@, id)]

PushByteString(vector, bytes) == push_back(vector, AddByteString(vector.gb, bytes))

PushEmptyStr(vector) == push_back(vector, AddEmptyStr(vector.gb))

PushRuleRef(vector, rule_id) == push_back(vector, AddRuleRef(vector.gb, rule_id))

AddSequenceAll(vector) == AddSequence(vector.gb, vector.ids)

AddChoicesAll(vector) == AddChoices(vector.gb, vector.ids)

\* SubGrammarAdder().Apply on the grammar an external converter returns
\* (Grammar::FromJSONSchema, FromEBNF, FromRegex): the sub-grammar is kept as
\* one rule whose body names the converter and its argument.
SubGrammarAdder(gb, source, arg) ==
    AddRuleOf(AddExpr(gb, [type |-> "sub_grammar", source |-> source, arg |-> arg]),
        "sub_grammar")

(***************************************************************************)
(* Finite state machines (fsm.h): FSM is the edge lists of the states,     *)
(* states counted from 0; FSMWithStartEnd adds the start and the end       *)
(* states.  An edge carries a byte range [min, max] and its target.        *)
(***************************************************************************)
\* The bytes of the model, in the order of their values: byte i of the
\* table has the value i - 1.  The exclusion automaton ranges over the bytes
\* 0..MaxByte where the code ranges over 0..255.
ByteTable == <<"a", "b", "c", "d", "e", "f">>

MaxByte == 1

\* static_cast<int16_t>(static_cast<uint8_t>(c))
uint8_t(c) == (CHOOSE i \in 1..Len(ByteTable) : ByteTable[i] = c) - 1

kNoNextState == 0 - 1

FSMEdge(min, max, target) == [min |-> min, max |-> max, target |-> target]

\* FSM(1)
NewFSM == <<<<>>>>

NumStates(fsm) == Len(fsm)

GetEdges(fsm, state) == fsm[state + 1]

\* The edges of a list that carry ch, by their index.
EdgesWith(edges, ch) == {i \in 1..Len(edges) : edges[i].min <= ch /\ ch <= edges[i].max}

FirstTarget(edges, hits) ==
    IF hits = {}
    THEN kNoNextState
    ELSE edges[CHOOSE i \in hits : \A j \in hits : i <= j].target

\* FSM::GetNextState: the target of the first edge of the state that
\* carries ch.
GetNextState(fsm, state, ch) ==
    FirstTarget(GetEdges(fsm, state), EdgesWith(GetEdges(fsm, state), ch))

\* FSM::AddState: the new state is NumStates(fsm).
AddState(fsm) == Append(fsm, <<>>)

AddEdge(fsm, from, to, min, max) ==
    [fsm EXCEPT ![from + 1] = Append(@, FSMEdge(min, max, to))]

FSMWithStartEnd(fsm, start, is_end) == [fsm |-> fsm, start |-> start, is_end |-> is_end]

IsEndState(f, state) == f.is_end[state + 1]

\* Step 1 of VisitSub(RegexFormat): the trie of the excluded strings.  The
\* walk of one string from current_state over the bytes still to read.
RECURSIVE TrieWalk(_, _, _)

\* int new_state = exclude_fsm.AddState(); exclude_fsm.AddEdge(...)
AddTrieState(exclude_fsm, current_state, ch) ==
    AddEdge(AddState(exclude_fsm), current_state, NumStates(exclude_fsm), ch, ch)

TrieStep(t, current_state, rest, ch, next_state) ==
    IF next_state = kNoNextState
    THEN TrieWalk([t EXCEPT !.exclude_fsm = AddTrieState(@, current_state, ch)],
             NumStates(t.exclude_fsm), Tail(rest))
    ELSE TrieWalk(t, next_state, Tail(rest))

TrieWalk(t, current_state, rest) ==
    Then(t,
        IF rest = <<>>
        THEN [t EXCEPT !.dead_states = @ \cup {current_state}]
        ELSE TrieStep(t, current_state, rest, uint8_t(Head(rest)),
                 GetNextState(t.exclude_fsm, current_state, uint8_t(Head(rest)))))

RECURSIVE BuildTrieFrom(_, _)
BuildTrieFrom(t, excluded_strs) ==
    Then(t,
        IF excluded_strs = <<>>
        THEN t
        ELSE BuildTrieFrom(TrieWalk(t, 0, Head(excluded_strs)), Tail(excluded_strs)))

BuildTrie(excluded_strs) ==
    BuildTrieFrom([exclude_fsm |-> NewFSM, dead_states |-> {}], excluded_strs)

\* The bytes the edges carry.
CoveredBytes(edges) ==
    UNION {edges[i].min .. edges[i].max : i \in 1..Len(edges)}

\* The copy of every edge of the start state, covered or not.
RECURSIVE CopyAllStartEdges(_, _, _)
CopyAllStartEdges(edges, covered_bytes, start_edges) ==
    IF start_edges = <<>>
    THEN [edges |-> edges, covered_bytes |-> covered_bytes]
    ELSE CopyAllStartEdges(Append(edges, Head(start_edges)),
             covered_bytes \cup {Head(start_edges).min}, Tail(start_edges))

\* Step 2, the copy of the start state's edges into a state: every start
\* edge whose min is not covered yet, in order.
RECURSIVE CopyStartEdges(_, _, _)
CopyStartEdges(edges, covered_bytes, start_edges) ==
    IF start_edges = <<>>
    THEN [edges |-> edges, covered_bytes |-> covered_bytes]
    ELSE IF Head(start_edges).min \notin covered_bytes
    THEN CopyStartEdges(Append(edges, Head(start_edges)),
             covered_bytes \cup {Head(start_edges).min}, Tail(start_edges))
    ELSE CopyStartEdges(edges, covered_bytes, Tail(start_edges))

\* Step 2, the fill of the gaps with edges back to the start, bytes b..MaxByte.
RECURSIVE FillGaps(_, _, _)
FillGaps(edges, covered_bytes, b) ==
    IF b > MaxByte
    THEN edges
    ELSE IF b \notin covered_bytes
    THEN FillGaps(Append(edges, FSMEdge(b, b, 0)), covered_bytes, b + 1)
    ELSE FillGaps(edges, covered_bytes, b + 1)

\* Step 2 for one state: the edges of the state after the copy and the fill.
CopiedEdges(exclude_fsm, state, edges) ==
    IF state # 0
    THEN CopyStartEdges(edges, CoveredBytes(edges), GetEdges(exclude_fsm, 0))
    ELSE [edges |-> edges, covered_bytes |-> CoveredBytes(edges)]

FilledEdges(copied) == FillGaps(copied.edges, copied.covered_bytes, 0)

\* Step 2 for one state without the fill of the gaps.
BackEdgesWithoutFill(exclude_fsm, state) ==
    CopiedEdges(exclude_fsm, state, GetEdges(exclude_fsm, state)).edges

BackEdges(exclude_fsm, state) ==
    FilledEdges(CopiedEdges(exclude_fsm, state, GetEdges(exclude_fsm, state)))

\* Step 2 for the states from state on.
RECURSIVE AddBackEdgesFrom(_, _, _)
AddBackEdgesFrom(exclude_fsm, dead_states, state) ==
    Then(exclude_fsm,
        IF state >= NumStates(exclude_fsm)
        THEN exclude_fsm
        ELSE IF state \in dead_states
        THEN AddBackEdgesFrom(exclude_fsm, dead_states, state + 1)
        ELSE AddBackEdgesFrom(
                 [exclude_fsm EXCEPT ![state + 1] = BackEdges(exclude_fsm, state)],
                 dead_states, state + 1))

AddBackEdges(exclude_fsm, dead_states) == AddBackEdgesFrom(exclude_fsm, dead_states, 0)

\* Step 3: the edges into dead states are removed.
RemoveDeadEdges(exclude_fsm, dead_states) ==
    [s \in 1..Len(exclude_fsm) |->
        SelectSeq(exclude_fsm[s], LAMBDA edge : edge.target \notin dead_states)]

\* The exclusion filter: all non-dead states are accepting.
ExcludeFilter(exclude_fsm, dead_states) ==
    FSMWithStartEnd(exclude_fsm, 0,
        [s \in 1..Len(exclude_fsm) |-> (s - 1) \notin dead_states])

\* Steps 2 and 3 on the trie of step 1.
FilterOfTrie(t) ==
    ExcludeFilter(
        RemoveDeadEdges(AddBackEdges(t.exclude_fsm, t.dead_states), t.dead_states),
        t.dead_states)

\* Steps 1 to 3.
BuildExcludeFilter(excluded_strs) == FilterOfTrie(BuildTrie(excluded_strs))

\* RegexFSMBuilder::Build (fsm_builder.h) on the patterns of the model: the
\* automaton of the pattern, or an error for an ill-formed pattern.
P_a_star == <<"a", "*">>
P_any_star == <<"[", "a", "-", "f", "]", "*">>
P_any_plus == <<"[", "a", "-", "f", "]", "+">>
P_a_star_b == <<"a", "*", "b">>
P_ab == <<"a", "b">>
P_bad == <<"*">>

RegexPatterns == {P_a_star, P_any_star, P_any_plus, P_a_star_b, P_ab}

RegexFSMBuilder(pattern) ==
    CASE pattern = P_a_star ->
           ResultOk(FSMWithStartEnd(<<<<FSMEdge(0, 0, 0)>>>>, 0, <<TRUE>>))
      [] pattern = P_any_star ->
           ResultOk(FSMWithStartEnd(<<<<FSMEdge(0, 5, 0)>>>>, 0, <<TRUE>>))
      [] pattern = P_any_plus ->
           ResultOk(FSMWithStartEnd(
               <<<<FSMEdge(0, 5, 1)>>, <<FSMEdge(0, 5, 1)>>>>, 0, <<FALSE, TRUE>>))
      [] pattern = P_a_star_b ->
           ResultOk(FSMWithStartEnd(
               <<<<FSMEdge(0, 0, 0), FSMEdge(1, 1, 1)>>, <<>>>>, 0, <<FALSE, TRUE>>))
      [] pattern = P_ab ->
           ResultOk(FSMWithStartEnd(
               <<<<FSMEdge(0, 0, 1)>>, <<FSMEdge(1, 1, 2)>>, <<>>>>, 0,
               <<FALSE, FALSE, TRUE>>))
      [] OTHER -> ResultErr("Failed to build FSM from regex pattern")

Max(a, b) == IF a >= b THEN a ELSE b

Min(a, b) == IF a <= b THEN a ELSE b

\* The index of x in seq, 0 when it is not there.
IndexOf(seq, x) ==
    IF \E i \in 1..Len(seq) : seq[i] = x
    THEN CHOOSE i \in 1..Len(seq) : seq[i] = x
    ELSE 0

\* FSMWithStartEnd::Intersect (fsm.h): the product automaton on the pairs of
\* states reachable from the pair of the starts, numbered in the order they
\* are found.  pairs are the product states found, fsm the edge lists of
\* those already expanded.
RECURSIVE IntersectEdges(_, _, _, _, _)

\* The product states with the target of an edge among them.
WithPair(pairs, target) ==
    IF IndexOf(pairs, target) = 0 THEN Append(pairs, target) ELSE pairs

IntersectEdge(lhs_edges, rhs_edges, k, pairs, edges, e1, e2) ==
    IF Max(e1.min, e2.min) <= Min(e1.max, e2.max)
    THEN IntersectEdges(lhs_edges, rhs_edges, k + 1,
             WithPair(pairs, <<e1.target, e2.target>>),
             Append(edges, FSMEdge(Max(e1.min, e2.min), Min(e1.max, e2.max),
                 IndexOf(WithPair(pairs, <<e1.target, e2.target>>),
                     <<e1.target, e2.target>>) - 1)))
    ELSE IntersectEdges(lhs_edges, rhs_edges, k + 1, pairs, edges)

IntersectEdges(lhs_edges, rhs_edges, k, pairs, edges) ==
    Then(edges,
        IF k > Len(lhs_edges) * Len(rhs_edges)
        THEN [pairs |-> pairs, edges |-> edges]
        ELSE IntersectEdge(lhs_edges, rhs_edges, k, pairs, edges,
                 lhs_edges[((k - 1) \div Len(rhs_edges)) + 1],
                 rhs_edges[((k - 1) % Len(rhs_edges)) + 1]))

RECURSIVE IntersectFrom(_, _, _, _)

IntersectState(lhs, rhs, fsm, r) == IntersectFrom(lhs, rhs, r.pairs, Append(fsm, r.edges))

IntersectFrom(lhs, rhs, pairs, fsm) ==
    Then(fsm,
        IF Len(fsm) >= Len(pairs)
        THEN FSMWithStartEnd(fsm, 0,
                 [i \in 1..Len(pairs) |->
                     IsEndState(lhs, pairs[i][1]) /\ IsEndState(rhs, pairs[i][2])])
        ELSE IntersectState(lhs, rhs, fsm,
                 IntersectEdges(GetEdges(lhs.fsm, pairs[Len(fsm) + 1][1]),
                     GetEdges(rhs.fsm, pairs[Len(fsm) + 1][2]), 1, pairs, <<>>)))

Intersect(lhs, rhs) == ResultOk(IntersectFrom(lhs, rhs, <<<<lhs.start, rhs.start>>>>, <<>>))

\* The first pass of the conversion of the product automaton: an empty rule
\* for every state.  The result is the builder and the rule ids.
RECURSIVE AddStateRules(_, _, _)

AddedStateRule(rule, num_states, state_rule_ids) ==
    AddStateRules(rule.gb, num_states, Append(state_rule_ids, rule.id))

AddStateRules(gb, num_states, state_rule_ids) ==
    Then(gb,
        IF Len(state_rule_ids) >= num_states
        THEN [gb |-> gb, state_rule_ids |-> state_rule_ids]
        ELSE AddedStateRule(AddEmptyRuleWithHint(gb, "regex_state"), num_states, state_rule_ids))

\* The transitions of one state: a sequence (character class, rule
\* reference) for every edge.  choice_seqs is the builder and the ids of the
\* sequences so far.
RECURSIVE AddTransitions(_, _, _)

\* AddSequence({char_expr, target_ref})
AddTransitionSequence(char_expr, target_ref) ==
    AddSequence(target_ref.gb, <<char_expr.id, target_ref.id>>)

AddTransitionTo(char_expr, target_rule_id) ==
    AddTransitionSequence(char_expr, AddRuleRef(char_expr.gb, target_rule_id))

AddTransition(gb, edge, state_rule_ids) ==
    AddTransitionTo(AddCharacterClass(gb, edge.min, edge.max),
        state_rule_ids[edge.target + 1])

AddTransitions(choice_seqs, edges, state_rule_ids) ==
    Then(choice_seqs,
        IF edges = <<>>
        THEN choice_seqs
        ELSE AddTransitions(
                 push_back(choice_seqs,
                     AddTransition(choice_seqs.gb, Head(edges), state_rule_ids)),
                 Tail(edges), state_rule_ids))

\* std::vector<int32_t> choice_seqs, with the empty string for an end state.
NewChoiceSeqs(gb, is_end) ==
    IF is_end
    THEN VectorOf(AddSequenceOf(AddEmptyStr(gb)))
    ELSE NewVector(gb)

UpdateStateRule(choice_seqs, rule_id) ==
    IF choice_seqs.ids = <<>>
    THEN UpdateRuleBodyOf(AddChoicesOf(AddSequenceOf(AddEmptyStr(choice_seqs.gb))), rule_id)
    ELSE UpdateRuleBodyOf(AddChoicesAll(choice_seqs), rule_id)

\* The body of the rule of one state.
StateRuleBody(gb, result_fsm, state, state_rule_ids) ==
    UpdateStateRule(
        AddTransitions(NewChoiceSeqs(gb, IsEndState(result_fsm, state)),
            GetEdges(result_fsm.fsm, state), state_rule_ids),
        state_rule_ids[state + 1])

\* The second pass: the rule bodies of the states from state on.
RECURSIVE BuildRuleBodies(_, _, _, _)
BuildRuleBodies(gb, result_fsm, state, state_rule_ids) ==
    Then(gb,
        IF state >= NumStates(result_fsm.fsm)
        THEN gb
        ELSE BuildRuleBodies(StateRuleBody(gb, result_fsm, state, state_rule_ids),
                 result_fsm, state + 1, state_rule_ids))

StartStateRule(r, result_fsm) ==
    [gb |-> BuildRuleBodies(r.gb, result_fsm, 0, r.state_rule_ids),
     id |-> r.state_rule_ids[result_fsm.start + 1]]

\* The conversion of the product automaton to rules; the result is the
\* builder and the rule of the start state.
FSMToRules(gb, result_fsm) ==
    StartStateRule(AddStateRules(gb, NumStates(result_fsm.fsm), <<>>), result_fsm)

(***************************************************************************)
(* StructuralTagGrammarConverter.  Its state is the grammar builder and    *)
(* the cache from fingerprint to rule id; visits and clock record, for     *)
(* every call of Visit, when it was entered and left and what it added.    *)
(* A visit returns [ok, rule_id, err, st], st the state it leaves.         *)
(***************************************************************************)
NewConverter ==
    [grammar_builder_ |-> EmptyBuilder,
     fingerprint_to_rule_id_ |-> [fp \in {} |-> 0],
     dedup |-> TRUE, visits |-> <<>>, clock |-> 0]

\* A converter that never answers from the cache: the reference a cached
\* rule is compared with.
FreshConverter == [NewConverter EXCEPT !.dedup = FALSE]

VisitOk(st, r) ==
    [ok |-> TRUE, rule_id |-> r.id, err |-> "",
     st |-> [st EXCEPT !.grammar_builder_ = r.gb]]

VisitErr(st, msg) == [ok |-> FALSE, rule_id |-> 0 - 1, err |-> msg, st |-> st]

IsPrefix(prefix, full_str) ==
    Len(prefix) <= Len(full_str) /\ SubSeq(full_str, 1, Len(prefix)) = prefix

NonEmpty(strs) == SelectSeq(strs, LAMBDA str : str # <<>>)

\* end_str.empty() ? AddEmptyStr() : AddByteString(end_str)
AddEndStr(gb, end_str) ==
    IF end_str = <<>> THEN AddEmptyStr(gb) ELSE AddByteString(gb, end_str)

RECURSIVE AddEndSequences(_, _)
\* Choice(Seq(end1), Seq(end2), ...): the sequences of the end strings.
AddEndSequences(end_sequence_ids, end) ==
    Then(end_sequence_ids,
        IF end = <<>>
        THEN end_sequence_ids
        ELSE AddEndSequences(
                 push_back(end_sequence_ids,
                     AddSequenceOf(AddEndStr(end_sequence_ids.gb, Head(end)))),
                 Tail(end)))

\* A rule `hint` with one alternative per end string, and a reference to it.
AddEndChoicesRule(gb, end, hint) ==
    AddRuleRefOf(AddRuleOf(AddChoicesAll(AddEndSequences(NewVector(gb), end)), hint))

\* The end of a sequence by the number of end strings: none (the end was
\* cleared), one (inline), more (a rule `hint` of their choices).
PushEnd(elements, end, hint) ==
    IF Len(end) > 1
    THEN push_back(elements, AddEndChoicesRule(elements.gb, end, hint))
    ELSE IF Len(end) = 1
    THEN push_back(elements, AddEndStr(elements.gb, end[1]))
    ELSE elements

\* The sequence of one tag with the first end string inlined, however many
\* end strings the tag has.
AddTagSequenceFirstEnd(gb, begin, content_rule_id, end) ==
    AddSequenceAll(
        PushEnd(PushRuleRef(PushByteString(NewVector(gb), begin), content_rule_id),
            IF end = <<>> THEN end ELSE <<Head(end)>>, "tag_end"))

\* The sequence of one tag: begin, the content rule, and the end.
AddTagSequence(gb, begin, content_rule_id, end) ==
    AddSequenceAll(
        PushEnd(PushRuleRef(PushByteString(NewVector(gb), begin), content_rule_id),
            end, "tag_end"))

\* Choices({sequence}) as the body of a new rule.
AddSingleSequenceRule(gb, elements, hint) ==
    AddRuleOf(AddChoicesOf(AddSequence(gb, elements)), hint)

ConverterVisitSubConstString(st, format) ==
    VisitOk(st, AddRuleOf(
                    AddChoicesOf(AddSequenceOf(
                        AddByteString(st.grammar_builder_, format.value))),
                    "const_string"))

ConverterVisitSubJSONSchema(st, format) ==
    VisitOk(st, SubGrammarAdder(st.grammar_builder_, "FromJSONSchema", format.json_schema))

ConverterVisitSubQwenXmlParameter(st, format) ==
    VisitOk(st, SubGrammarAdder(st.grammar_builder_, "QwenXMLToolCallingToEBNF",
                    format.xml_schema))

ConverterVisitSubGrammar(st, format) ==
    VisitOk(st, SubGrammarAdder(st.grammar_builder_, "FromEBNF", format.grammar))

\* VisitSub(RegexFormat) from the conversion of the product automaton on.
RegexToRules(st, result_fsm_result) ==
    IF ~result_fsm_result.ok
    THEN VisitErr(st, "Failed to compute intersection for regex with excludes")
    ELSE IF NumStates(result_fsm_result.val.fsm) = 0
    THEN VisitErr(st, "Regex with excludes results in empty language (nothing matches)")
    ELSE VisitOk(st, FSMToRules(st.grammar_builder_, result_fsm_result.val))

\* VisitSub(RegexFormat) with excludes, once the automaton of the pattern is
\* built.
RegexWithExcludes(st, format, regex_fsm_result) ==
    IF ~regex_fsm_result.ok
    THEN VisitErr(st, "Failed to build FSM from regex pattern")
    ELSE RegexToRules(st,
             Intersect(regex_fsm_result.val, BuildExcludeFilter(format.excluded_strs)))

ConverterVisitSubRegex(st, format) ==
    IF format.excluded_strs = <<>>
    THEN VisitOk(st, SubGrammarAdder(st.grammar_builder_, "FromRegex", format.pattern))
    ELSE RegexWithExcludes(st, format, RegexFSMBuilder(format.pattern))

\* VisitSub(AnyTextFormat) with the detected end strings as they are, the
\* empty ones included.
ConverterVisitSubAnyTextUnfiltered(st, format) ==
    IF format.detected_end_strs_ # <<>>
    THEN VisitOk(st, AddRuleOf(
                         AddTagDispatch(st.grammar_builder_,
                             TagDispatch(<<>>, FALSE, format.detected_end_strs_,
                                 FALSE, format.excluded_strs)),
                         "any_text"))
    ELSE VisitOk(st, AddRuleOf(
                         AddChoicesOf(AddSequenceOf(
                             AddCharacterClassStar(st.grammar_builder_, 0, 1114111))),
                         "any_text"))

ConverterVisitSubAnyText(st, format) ==
    IF format.detected_end_strs_ # <<>>
    THEN VisitOk(st, AddRuleOf(
                         AddTagDispatch(st.grammar_builder_,
                             TagDispatch(<<>>, FALSE, NonEmpty(format.detected_end_strs_),
                                 FALSE, format.excluded_strs)),
                         "any_text"))
    ELSE VisitOk(st, AddRuleOf(
                         AddChoicesOf(AddSequenceOf(
                             AddCharacterClassStar(st.grammar_builder_, 0, 1114111))),
                         "any_text"))

RECURSIVE ConverterVisit(_, _)
RECURSIVE VisitElements(_, _, _, _, _)

\* AddRuleRef(rule_id), for an or wrapped in a sequence of its own.
AddElementRef(gb, rule_id, wrap) ==
    IF wrap THEN AddSequenceOf(AddRuleRef(gb, rule_id)) ELSE AddRuleRef(gb, rule_id)

PushElement(st, added, elements, i, wrap, ids) ==
    VisitElements([st EXCEPT !.grammar_builder_ = added.gb], elements, i + 1, wrap,
        Append(ids, added.id))

VisitedElement(result, elements, i, wrap, ids) ==
    IF ~result.ok
    THEN [ok |-> FALSE, rule_id |-> 0 - 1, err |-> result.err, st |-> result.st,
          ids |-> ids]
    ELSE PushElement(result.st,
             AddElementRef(result.st.grammar_builder_, result.rule_id, wrap),
             elements, i, wrap, ids)

\* The loops of VisitSub(SequenceFormat) and VisitSub(OrFormat) over the
\* elements from i on: a rule reference per element.  The first error ends
\* the loop.
VisitElements(st, elements, i, wrap, ids) ==
    IF i > Len(elements)
    THEN [ok |-> TRUE, rule_id |-> 0 - 1, err |-> "", st |-> st, ids |-> ids]
    ELSE VisitedElement(ConverterVisit(st, elements[i]), elements, i, wrap, ids)

\* VisitSub(SequenceFormat) with the reference of the first element left
\* out of the rule.
SequenceRuleSkippingFirst(r) ==
    IF ~r.ok
    THEN VisitErr(r.st, r.err)
    ELSE VisitOk(r.st, AddSingleSequenceRule(r.st.grammar_builder_, Tail(r.ids), "sequence"))

SequenceRule(r) ==
    IF ~r.ok
    THEN VisitErr(r.st, r.err)
    ELSE VisitOk(r.st, AddSingleSequenceRule(r.st.grammar_builder_, r.ids, "sequence"))

ConverterVisitSubSequence(st, format) ==
    SequenceRule(VisitElements(st, format.elements, 1, FALSE, <<>>))

OrRule(r) ==
    IF ~r.ok
    THEN VisitErr(r.st, r.err)
    ELSE VisitOk(r.st, AddRuleOf(AddChoices(r.st.grammar_builder_, r.ids), "or"))

ConverterVisitSubOr(st, format) ==
    OrRule(VisitElements(st, format.elements, 1, TRUE, <<>>))

TagRule(result, format) ==
    IF ~result.ok
    THEN result
    ELSE VisitOk(result.st,
             AddRuleOf(
                 AddChoicesOf(AddTagSequence(result.st.grammar_builder_, format.begin,
                     result.rule_id, format.end)),
                 "tag"))

ConverterVisitSubTag(st, format) == TagRule(ConverterVisit(st, format.content), format)

\* Step 1 of VisitSub(TriggeredTagsFormat) for the tags from it_tag on: the
\* one trigger that is a prefix of the tag's begin, then the visit of the
\* tag's content.
RECURSIVE MatchTriggers(_, _, _, _, _)

\* The triggers that are a prefix of the begin of a tag.
MatchedTriggers(format, tag) ==
    {it_trigger \in 1..Len(format.triggers) :
        IsPrefix(format.triggers[it_trigger], tag.begin)}

MatchFailed(msg, st, trigger_to_tag_ids, tag_content_rule_ids) ==
    [ok |-> FALSE, err |-> msg, st |-> st, trigger_to_tag_ids |-> trigger_to_tag_ids,
     tag_content_rule_ids |-> tag_content_rule_ids]

MatchedTagContent(result, format, it_tag, matched_trigger_id, trigger_to_tag_ids,
                   tag_content_rule_ids) ==
    IF ~result.ok
    THEN MatchFailed(result.err, result.st, trigger_to_tag_ids, tag_content_rule_ids)
    ELSE MatchTriggers(result.st, format, it_tag + 1,
             [trigger_to_tag_ids EXCEPT ![matched_trigger_id] = Append(@, it_tag)],
             Append(tag_content_rule_ids, result.rule_id))

MatchTrigger(st, format, it_tag, trigger_to_tag_ids, tag_content_rule_ids, matched) ==
    IF Cardinality(matched) > 1
    THEN MatchFailed("One tag matches multiple triggers in a triggered tags format", st,
             trigger_to_tag_ids, tag_content_rule_ids)
    ELSE IF matched = {}
    THEN MatchFailed("One tag does not match any trigger in a triggered tags format", st,
             trigger_to_tag_ids, tag_content_rule_ids)
    ELSE MatchedTagContent(ConverterVisit(st, format.tags[it_tag].content), format,
             it_tag, CHOOSE it_trigger \in matched : TRUE, trigger_to_tag_ids,
             tag_content_rule_ids)

MatchTriggers(st, format, it_tag, trigger_to_tag_ids, tag_content_rule_ids) ==
    IF it_tag > Len(format.tags)
    THEN [ok |-> TRUE, err |-> "", st |-> st, trigger_to_tag_ids |-> trigger_to_tag_ids,
          tag_content_rule_ids |-> tag_content_rule_ids]
    ELSE MatchTrigger(st, format, it_tag, trigger_to_tag_ids, tag_content_rule_ids,
             MatchedTriggers(format, format.tags[it_tag]))

\* The begin of a tag as it is, the trigger left on its front.
substrKeepingAll(str, strip) == str

\* tag.begin.substr(strip)
substr(str, strip) == SubSeq(str, strip + 1, Len(str))

\* The sequences of the tags tag_ids[i..], each with `strip` bytes taken off
\* the front of its begin, pushed on choice_elements.
RECURSIVE AddTagChoices(_, _, _, _, _, _)
AddTagChoices(choice_elements, format, tag_ids, i, strip, tag_content_rule_ids) ==
    Then(choice_elements,
        IF i > Len(tag_ids)
        THEN choice_elements
        ELSE AddTagChoices(
                 push_back(choice_elements,
                     AddTagSequence(choice_elements.gb,
                         substr(format.tags[tag_ids[i]].begin, strip),
                         tag_content_rule_ids[tag_ids[i]], format.tags[tag_ids[i]].end)),
                 format, tag_ids, i + 1, strip, tag_content_rule_ids))

AllTagIds(format) == [i \in 1..Len(format.tags) |-> i]

\* Step 2 without the handling of the detected end strings.
HandleDetectedEndStrsNever(choice_expr_id, format) == choice_expr_id

\* Step 2, "Handle the detected end strings": the choices of the tags become
\* a rule of their own, followed by the end.
HandleDetectedEndStrs(choice_expr_id, format) ==
    IF format.detected_end_strs_ # <<>>
    THEN AddChoicesOf(AddSequenceAll(
             PushEnd(VectorOf(AddRuleRefOf(AddRuleOf(choice_expr_id, "triggered_tags_sub"))),
                 format.detected_end_strs_, "end_choices")))
    ELSE choice_expr_id

\* Step 2: at_least_one && stop_after_first, exactly one tag and no text.
TriggeredTagsSpecialCase(gb, format, tag_content_rule_ids) ==
    AddRuleOf(
        HandleDetectedEndStrs(
            AddChoicesAll(AddTagChoices(NewVector(gb), format, AllTagIds(format), 1, 0,
                tag_content_rule_ids)),
            format),
        "triggered_tags")

\* Step 3.1 for one trigger: the rule of the tags of the trigger.
AddTriggerGroup(gb, format, it_trigger, trigger_to_tag_ids, tag_content_rule_ids) ==
    AddRuleOf(
        AddChoicesAll(AddTagChoices(NewVector(gb), format, trigger_to_tag_ids[it_trigger],
            1, Len(format.triggers[it_trigger]), tag_content_rule_ids)),
        "triggered_tags_group")

\* tag_rule_pairs.push_back(std::make_pair(trigger, sub_rule_id))
PushPair(groups, trigger, sub_rule_id) ==
    [gb |-> sub_rule_id.gb,
     tag_rule_pairs |-> Append(groups.tag_rule_pairs, <<trigger, sub_rule_id.id>>)]

\* Step 3.1: the rule of every trigger from it_trigger on, and the pairs
\* (trigger, rule) of the dispatch.
RECURSIVE AddTriggerGroups(_, _, _, _, _)
AddTriggerGroups(groups, format, it_trigger, trigger_to_tag_ids, tag_content_rule_ids) ==
    Then(groups,
        IF it_trigger > Len(format.triggers)
        THEN groups
        ELSE AddTriggerGroups(
                 PushPair(groups, format.triggers[it_trigger],
                     AddTriggerGroup(groups.gb, format, it_trigger, trigger_to_tag_ids,
                         tag_content_rule_ids)),
                 format, it_trigger + 1, trigger_to_tag_ids, tag_content_rule_ids))

\* Step 3.2: the tag dispatch.
AddDispatch(groups, format) ==
    IF format.detected_end_strs_ # <<>>
    THEN AddTagDispatch(groups.gb,
             TagDispatch(groups.tag_rule_pairs, FALSE, NonEmpty(format.detected_end_strs_),
                 ~format.stop_after_first, format.excludes))
    ELSE AddTagDispatch(groups.gb,
             TagDispatch(groups.tag_rule_pairs, TRUE, <<>>, ~format.stop_after_first,
                 format.excludes))

\* Step 3.3, "Construct the full rule": the first rule, then the dispatch.
FullRule(first_rule_id, tag_dispatch_rule_id) ==
    AddChoicesOf(AddSequenceAll(
        PushRuleRef(PushRuleRef(NewVector(tag_dispatch_rule_id.gb), first_rule_id.id),
            tag_dispatch_rule_id.id)))

FirstThenDispatch(first_rule_id, rule_expr_id) ==
    FullRule(first_rule_id,
        AddRuleWithHint(first_rule_id.gb, "triggered_tags_sub", rule_expr_id.id))

\* Step 3.3: at_least_one.
ConsiderAtLeastOne(rule_expr_id, format, tag_content_rule_ids) ==
    IF format.at_least_one
    THEN FirstThenDispatch(
             AddRuleOf(
                 AddChoicesAll(AddTagChoices(NewVector(rule_expr_id.gb), format,
                     AllTagIds(format), 1, 0, tag_content_rule_ids)),
                 "triggered_tags_first"),
             rule_expr_id)
    ELSE rule_expr_id

\* Step 3: text mixed with the triggered tags.
TriggeredTagsNormalCase(gb, format, trigger_to_tag_ids, tag_content_rule_ids) ==
    AddRuleOf(
        ConsiderAtLeastOne(
            AddDispatch(
                AddTriggerGroups([gb |-> gb, tag_rule_pairs |-> <<>>], format, 1,
                    trigger_to_tag_ids, tag_content_rule_ids),
                format),
            format, tag_content_rule_ids),
        "triggered_tags")

TriggeredTagsRule(m, format) ==
    IF ~m.ok
    THEN VisitErr(m.st, m.err)
    ELSE IF format.at_least_one /\ format.stop_after_first
    THEN VisitOk(m.st, TriggeredTagsSpecialCase(m.st.grammar_builder_, format,
                           m.tag_content_rule_ids))
    ELSE VisitOk(m.st, TriggeredTagsNormalCase(m.st.grammar_builder_, format,
                           m.trigger_to_tag_ids, m.tag_content_rule_ids))

ConverterVisitSubTriggeredTags(st, format) ==
    TriggeredTagsRule(
        MatchTriggers(st, format, 1, [t \in 1..Len(format.triggers) |-> <<>>], <<>>),
        format)

\* Step 1 of VisitSub(TagsWithSeparatorFormat): the visit of the tags from
\* it_tag on, a sequence with a rule reference for each.
RECURSIVE VisitSeparatedTags(_, _, _, _)

PushTag(st, sequence_expr_id, format, it_tag, choice_ids) ==
    VisitSeparatedTags([st EXCEPT !.grammar_builder_ = sequence_expr_id.gb], format,
        it_tag + 1, Append(choice_ids, sequence_expr_id.id))

VisitedSeparatedTag(tag_rule_id, format, it_tag, choice_ids) ==
    IF ~tag_rule_id.ok
    THEN [ok |-> FALSE, err |-> tag_rule_id.err, st |-> tag_rule_id.st, ids |-> choice_ids]
    ELSE PushTag(tag_rule_id.st,
             AddSequenceOf(AddRuleRef(tag_rule_id.st.grammar_builder_, tag_rule_id.rule_id)),
             format, it_tag, choice_ids)

VisitSeparatedTags(st, format, it_tag, choice_ids) ==
    IF it_tag > Len(format.tags)
    THEN [ok |-> TRUE, err |-> "", st |-> st, ids |-> choice_ids]
    ELSE VisitedSeparatedTag(ConverterVisit(st, format.tags[it_tag]), format, it_tag,
             choice_ids)

\* A byte string expression for every non-empty string of strs.
RECURSIVE AddByteStrings(_, _)
AddByteStrings(end_str_expr_ids, strs) ==
    Then(end_str_expr_ids,
        IF strs = <<>>
        THEN end_str_expr_ids
        ELSE IF Head(strs) # <<>>
        THEN AddByteStrings(PushByteString(end_str_expr_ids, Head(strs)), Tail(strs))
        ELSE AddByteStrings(end_str_expr_ids, Tail(strs)))

\* A sequence `prefix` followed by the expression, for every expression of
\* expr_ids.
RECURSIVE AddSequencesWith(_, _, _)
AddSequencesWith(choices, prefix, expr_ids) ==
    Then(choices,
        IF expr_ids = <<>>
        THEN choices
        ELSE AddSequencesWith(
                 push_back(choices, AddSequence(choices.gb, Append(prefix, Head(expr_ids)))),
                 prefix, Tail(expr_ids)))

\* Step 2 with the body of at_least_one whatever the flag is.
TagsWithSeparatorSpecialBodyAtLeastOne(gb, format, all_tags_rule_ref_id, end_str_expr_ids) ==
    IF end_str_expr_ids = <<>>
    THEN AddChoicesOf(AddSequence(gb, <<all_tags_rule_ref_id>>))
    ELSE AddChoicesAll(
             AddSequencesWith(NewVector(gb), <<all_tags_rule_ref_id>>, end_str_expr_ids))

\* Step 2: at most one tag.
TagsWithSeparatorSpecialBody(gb, format, all_tags_rule_ref_id, end_str_expr_ids) ==
    IF format.at_least_one
    THEN IF end_str_expr_ids = <<>>
         THEN AddChoicesOf(AddSequence(gb, <<all_tags_rule_ref_id>>))
         ELSE AddChoicesAll(
                  AddSequencesWith(NewVector(gb), <<all_tags_rule_ref_id>>, end_str_expr_ids))
    ELSE IF end_str_expr_ids = <<>>
         THEN AddChoicesAll(
                  PushEmptyStr(VectorOf(AddSequence(gb, <<all_tags_rule_ref_id>>))))
         ELSE AddChoicesAll(
                  AddSequencesWith(
                      AddSequencesWith(NewVector(gb), <<all_tags_rule_ref_id>>,
                          end_str_expr_ids),
                      <<>>, end_str_expr_ids))

TagsWithSeparatorSpecialCase(gb, format, all_tags_rule_ref_id, end_str_expr_ids) ==
    AddRuleOf(
        TagsWithSeparatorSpecialBody(gb, format, all_tags_rule_ref_id, end_str_expr_ids),
        "tags_with_separator")

\* Step 3.1, end_str_sequence_id: empty if no end strs, otherwise the choices
\* of the end strs.
AddEndStrSequence(gb, end_str_expr_ids) ==
    IF end_str_expr_ids = <<>>
    THEN AddEmptyStr(gb)
    ELSE IF Len(end_str_expr_ids) = 1
    THEN AddSequence(gb, <<end_str_expr_ids[1]>>)
    ELSE AddChoicesAll(AddSequencesWith(NewVector(gb), <<>>, end_str_expr_ids))

\* Step 3.1, sub_sequence_elements: sep tags_rule tags_rule_sub.
SubSequenceElements(gb, format, all_tags_rule_ref_id, sub_rule_id) ==
    PushRuleRef(
        PushId(IF format.separator # <<>>
               THEN PushByteString(NewVector(gb), format.separator)
               ELSE NewVector(gb),
            all_tags_rule_ref_id),
        sub_rule_id)

\* Step 3.1: the body of the sub rule; the result is the builder.
UpdateSubRule(sub_rule_id, end_str_sequence_id, format, all_tags_rule_ref_id) ==
    UpdateRuleBodyOf(
        AddChoicesAll(
            PushId(VectorOf(AddSequenceAll(
                       SubSequenceElements(end_str_sequence_id.gb, format,
                           all_tags_rule_ref_id, sub_rule_id.id))),
                end_str_sequence_id.id)),
        sub_rule_id.id)

\* Step 3.2 with the end as a choice of the root rule whatever at_least_one
\* is.
RootChoicesWithEnd(gb, format, all_tags_rule_ref_id, sub_rule_id, end_str_sequence_id) ==
    PushId(VectorOf(AddSequenceAll(
               PushRuleRef(PushId(NewVector(gb), all_tags_rule_ref_id), sub_rule_id))),
        end_str_sequence_id)

\* Step 3.2: the choices of the root rule.
RootChoices(gb, format, all_tags_rule_ref_id, sub_rule_id, end_str_sequence_id) ==
    IF ~format.at_least_one
    THEN PushId(VectorOf(AddSequenceAll(
                    PushRuleRef(PushId(NewVector(gb), all_tags_rule_ref_id), sub_rule_id))),
             end_str_sequence_id)
    ELSE VectorOf(AddSequenceAll(
             PushRuleRef(PushId(NewVector(gb), all_tags_rule_ref_id), sub_rule_id)))

TagsWithSeparatorRoot(sub_rule_id, end_str_sequence_id, format, all_tags_rule_ref_id) ==
    AddRuleOf(
        AddChoicesAll(
            RootChoices(
                UpdateSubRule(sub_rule_id, end_str_sequence_id, format, all_tags_rule_ref_id),
                format, all_tags_rule_ref_id, sub_rule_id.id, end_str_sequence_id.id)),
        "tags_with_separator")

TagsWithSeparatorSub(sub_rule_id, format, all_tags_rule_ref_id, end_str_expr_ids) ==
    TagsWithSeparatorRoot(sub_rule_id, AddEndStrSequence(sub_rule_id.gb, end_str_expr_ids),
        format, all_tags_rule_ref_id)

\* Step 3: tag (separator tag)* end.
TagsWithSeparatorNormalCase(gb, format, all_tags_rule_ref_id, end_str_expr_ids) ==
    TagsWithSeparatorSub(AddEmptyRuleWithHint(gb, "tags_with_separator_sub"), format,
        all_tags_rule_ref_id, end_str_expr_ids)

\* Check if separator matches any end string.
SeparatorMatchesEnd(format) ==
    \E i \in 1..Len(format.detected_end_strs_) :
        format.detected_end_strs_[i] = format.separator

TagsWithSeparatorCases(st, format, all_tags_rule_ref_id, end_str_expr_ids) ==
    IF format.stop_after_first \/
           (end_str_expr_ids.ids # <<>> /\ SeparatorMatchesEnd(format))
    THEN VisitOk(st, TagsWithSeparatorSpecialCase(end_str_expr_ids.gb, format,
                         all_tags_rule_ref_id, end_str_expr_ids.ids))
    ELSE VisitOk(st, TagsWithSeparatorNormalCase(end_str_expr_ids.gb, format,
                         all_tags_rule_ref_id, end_str_expr_ids.ids))

TagsWithSeparatorEnds(st, format, all_tags_rule_ref_id) ==
    TagsWithSeparatorCases(st, format, all_tags_rule_ref_id.id,
        AddByteStrings(NewVector(all_tags_rule_ref_id.gb), format.detected_end_strs_))

TagsWithSeparatorRule(tags, format) ==
    IF ~tags.ok
    THEN VisitErr(tags.st, tags.err)
    ELSE TagsWithSeparatorEnds(tags.st, format,
             AddRuleRefOf(AddRuleOf(AddChoices(tags.st.grammar_builder_, tags.ids),
                 "tags_with_separator_tags")))

ConverterVisitSubTagsWithSeparator(st, format) ==
    TagsWithSeparatorRule(VisitSeparatedTags(st, format, 1, <<>>), format)

ConverterVisitSub(st, format) ==
    CASE format.kind = "ConstStringFormat" -> ConverterVisitSubConstString(st, format)
      [] format.kind = "JSONSchemaFormat" -> ConverterVisitSubJSONSchema(st, format)
      [] format.kind = "QwenXmlParameterFormat" -> ConverterVisitSubQwenXmlParameter(st, format)
      [] format.kind = "AnyTextFormat" -> ConverterVisitSubAnyText(st, format)
      [] format.kind = "GrammarFormat" -> ConverterVisitSubGrammar(st, format)
      [] format.kind = "RegexFormat" -> ConverterVisitSubRegex(st, format)
      [] format.kind = "SequenceFormat" -> ConverterVisitSubSequence(st, format)
      [] format.kind = "OrFormat" -> ConverterVisitSubOr(st, format)
      [] format.kind = "TagFormat" -> ConverterVisitSubTag(st, format)
      [] format.kind = "TriggeredTagsFormat" -> ConverterVisitSubTriggeredTags(st, format)
      [] format.kind = "TagsWithSeparatorFormat" ->
             ConverterVisitSubTagsWithSeparator(st, format)

\* it != fingerprint_to_rule_id_.end()
CacheHit(fingerprint_to_rule_id_, fingerprint) ==
    fingerprint \in DOMAIN fingerprint_to_rule_id_

\* The record of one call of Visit, kept in st.visits when it returns.
VisitRecord(format, fingerprint, entered, result, hit) ==
    [format |-> format, fingerprint |-> fingerprint, hit |-> hit, ok |-> result.ok,
     rule_id |-> result.rule_id,
     call |-> entered.clock + 1, ret |-> result.st.clock + 1,
     rules_before |-> Len(entered.grammar_builder_.rules),
     exprs_before |-> Len(entered.grammar_builder_.exprs),
     rules_after |-> Len(result.st.grammar_builder_.rules),
     exprs_after |-> Len(result.st.grammar_builder_.exprs)]

Returned(format, fingerprint, entered, result, hit) ==
    [result EXCEPT !.st.clock = @ + 1,
                   !.st.visits = Append(@, VisitRecord(format, fingerprint, entered, result,
                                               hit))]

\* Visit after a miss: fingerprint_to_rule_id_[fingerprint] = rule_id when
\* the result is not an error.
VisitMiss(st, format, fingerprint, result) ==
    IF result.ok
    THEN Returned(format, fingerprint, st,
             [result EXCEPT !.st.fingerprint_to_rule_id_ =
                 (fingerprint :> result.rule_id) @@ @], FALSE)
    ELSE Returned(format, fingerprint, st, result, FALSE)

VisitWith(st, format, fingerprint) ==
    IF st.dedup /\ CacheHit(st.fingerprint_to_rule_id_, fingerprint)
    THEN Returned(format, fingerprint, st,
             [ok |-> TRUE, rule_id |-> st.fingerprint_to_rule_id_[fingerprint],
              err |-> "", st |-> [st EXCEPT !.clock = @ + 1]], TRUE)
    ELSE VisitMiss(st, format, fingerprint,
             ConverterVisitSub([st EXCEPT !.clock = @ + 1], format))

\* StructuralTagGrammarConverter::Visit
ConverterVisit(st, format) == VisitWith(st, format, Compute(format))

GetGrammar(root_rule_id) ==
    [rules |-> root_rule_id.gb.rules, exprs |-> root_rule_id.gb.exprs,
     root_rule_id |-> root_rule_id.id]

\* AddRootRuleAndGetGrammar: the grammar is the builder's rules and
\* expressions with the root rule.
AddRootRuleAndGetGrammar(gb, ref_rule_id) ==
    GetGrammar(AddRuleOf(AddChoicesOf(AddSequenceOf(AddRuleRef(gb, ref_rule_id))), "root"))

NoGrammar == [rules |-> <<>>, exprs |-> <<>>, root_rule_id |-> 0 - 1]

Converted(result) ==
    IF ~result.ok
    THEN [ok |-> FALSE, err |-> result.err, st |-> result.st, grammar |-> NoGrammar]
    ELSE [ok |-> TRUE, err |-> "", st |-> result.st,
          grammar |-> AddRootRuleAndGetGrammar(result.st.grammar_builder_, result.rule_id)]

\* Convert with the converter `converter`.
ConvertWith(converter, format) == Converted(ConverterVisit(converter, format))

\* StructuralTagGrammarConverter().Convert
Convert(format) == ConvertWith(NewConverter, format)

(***************************************************************************)
(* The languages of automata and grammars, on byte strings.  The grammar   *)
(* semantics is that of the grammar IR (grammar_impl.h): a rule generates  *)
(* what its body generates.  MaxDepth bounds the nesting of rule           *)
(* references that a derivation goes through.                              *)
(***************************************************************************)
MaxDepth == 12

\* The states an automaton is in after the bytes of s, from `states`.
RECURSIVE FSMRun(_, _, _)
FSMRun(fsm, states, s) ==
    IF s = <<>>
    THEN states
    ELSE FSMRun(fsm,
             {edge.target : edge \in
                 {e \in UNION {{GetEdges(fsm, q)[i] : i \in 1..Len(GetEdges(fsm, q))} :
                                  q \in states} :
                      e.min <= uint8_t(Head(s)) /\ uint8_t(Head(s)) <= e.max}},
             Tail(s))

\* FSMWithStartEnd::AcceptString
FSMAccepts(f, s) ==
    \E q \in FSMRun(f.fsm, {f.start}, s) : IsEndState(f, q)

\* sub occurs in s.
Contains(s, sub) ==
    \E i \in 1..(Len(s) - Len(sub) + 1) : SubSeq(s, i, i + Len(sub) - 1) = sub

ContainsAny(s, strs) == \E i \in 1..Len(strs) : Contains(s, strs[i])

Suffix(s, k) == SubSeq(s, k + 1, Len(s))

\* The language of a sub-grammar an external converter returned: for a
\* regex the language of its automaton; a schema or an EBNF text stands for
\* itself.
SubGrammarDerives(expr, s) ==
    IF expr.source = "FromRegex"
    THEN RegexFSMBuilder(expr.arg).ok /\ FSMAccepts(RegexFSMBuilder(expr.arg).val, s)
    ELSE s = expr.arg

\* How a tag dispatch ends: at the end of the input (stop_eos) or with one
\* of the stop strings.
StopDerives(td, s) ==
    IF td.stop_eos THEN s = <<>> ELSE \E i \in 1..Len(td.stop_str) : s = td.stop_str[i]

\* Free text of a tag dispatch: no trigger, no stop string and no excluded
\* string occurs in it.
FreeText(td, s) ==
    /\ \A i \in 1..Len(td.tag_rule_pairs) : ~Contains(s, td.tag_rule_pairs[i][1])
    /\ ~ContainsAny(s, td.stop_str)
    /\ ~ContainsAny(s, td.excludes)

RECURSIVE Derives(_, _, _, _)
RECURSIVE DerivesSequence(_, _, _, _)
RECURSIVE DerivesTagDispatch(_, _, _, _)

\* The expression expr of g generates exactly s.
DerivesExpr(g, expr, s, depth) ==
    CASE expr.type = "byte_string" -> s = expr.bytes
      [] expr.type = "empty_str" -> s = <<>>
      [] expr.type = "character_class" ->
             /\ Len(s) = 1
             /\ \E b \in expr.min .. expr.max :
                    b + 1 <= Len(ByteTable) /\ ByteTable[b + 1] = s[1]
      [] expr.type = "character_class_star" -> TRUE
      [] expr.type = "rule_ref" ->
             /\ depth > 0
             /\ g.rules[expr.rule_id + 1].body # NoBody
             /\ Derives(g, g.rules[expr.rule_id + 1].body, s, depth - 1)
      [] expr.type = "sequence" -> DerivesSequence(g, expr.elements, s, depth)
      [] expr.type = "choices" ->
             \E i \in 1..Len(expr.choices) : Derives(g, expr.choices[i], s, depth)
      [] expr.type = "tag_dispatch" ->
             DerivesTagDispatch(g, expr.tag_dispatch, s, depth)
      [] expr.type = "sub_grammar" -> SubGrammarDerives(expr, s)

Derives(g, expr_id, s, depth) == DerivesExpr(g, g.exprs[expr_id + 1], s, depth)

\* The expressions of elements, in order, generate s.
DerivesSequence(g, elements, s, depth) ==
    IF elements = <<>>
    THEN s = <<>>
    ELSE \E k \in 0..Len(s) :
             /\ Derives(g, Head(elements), SubSeq(s, 1, k), depth)
             /\ DerivesSequence(g, Tail(elements), Suffix(s, k), depth)

\* A dispatched tag at position k of s: the trigger, the body of its rule
\* and, by loop_after_dispatch, the dispatch again or the end.
DerivesDispatched(g, td, s, depth, k, trigger, body) ==
    /\ IsPrefix(trigger, Suffix(s, k))
    /\ depth > 0
    /\ \E m \in (k + Len(trigger))..Len(s) :
           /\ Derives(g, body, SubSeq(s, k + Len(trigger) + 1, m), depth - 1)
           /\ IF td.loop_after_dispatch
              THEN DerivesTagDispatch(g, td, Suffix(s, m), depth)
              ELSE StopDerives(td, Suffix(s, m))

\* Free text, then the end or a dispatched tag.
DerivesTagDispatch(g, td, s, depth) ==
    \E k \in 0..Len(s) :
        /\ FreeText(td, SubSeq(s, 1, k))
        /\ \/ StopDerives(td, Suffix(s, k))
           \/ \E i \in 1..Len(td.tag_rule_pairs) :
                 DerivesDispatched(g, td, s, depth, k, td.tag_rule_pairs[i][1],
                     g.rules[td.tag_rule_pairs[i][2] + 1].body)

\* The grammar generates s from its root rule.
Accepts(g, s) == Derives(g, g.rules[g.root_rule_id + 1].body, s, MaxDepth)

\* The rule rule_id of the rules and expressions of gb generates s.
RuleDerives(gb, rule_id, s) == Derives(gb, gb.rules[rule_id + 1].body, s, MaxDepth)

\* The byte strings over alphabet of length at most n.
Strings(alphabet, n) == UNION {[1..k -> alphabet] : k \in 0..n}

(***************************************************************************)
(* StructuralTagToGrammar: parse, analyze, convert, normalize.  Each stage *)
(* is one step; stages is the list of those that ran, error the error the  *)
(* call returns, grammar the grammar it returns.                           *)
(***************************************************************************)
\* GrammarNormalizer::Apply (grammar_functor.h): the rules of the grammar,
\* marked as normalized.
GrammarNormalizer(g) ==
    [rules |-> g.rules, exprs |-> g.exprs, root_rule_id |-> g.root_rule_id,
     normalized |-> TRUE]

NoError_ == [type |-> "none", msg |-> ""]

InvalidJSONError(msg) == [type |-> "InvalidJSONError", msg |-> msg]

InvalidStructuralTagError(msg) == [type |-> "InvalidStructuralTagError", msg |-> msg]

\* The error of ParseStructuralTag as FromJSON returns it.
StructuralTagResult(result) ==
    [ok |-> result.ok, val |-> result.val,
     err |-> IF result.ok THEN NoError_ ELSE InvalidStructuralTagError(result.err)]

\* StructuralTagParser::FromJSON: picojson::parse, then ParseStructuralTag.
FromJSON(document) ==
    IF ~document.valid
    THEN [ok |-> FALSE, val |-> NoFormat, err |-> InvalidJSONError("Failed to parse JSON")]
    ELSE StructuralTagResult(ParseStructuralTag(document.value))

NoConverter == [NewConverter EXCEPT !.clock = 0 - 1]

NoRegex == [step |-> "none"]

NoAnalyzer == [step |-> "none"]

Init ==
    /\ \E i \in 1..Len(Documents) : json = Documents[i]
    /\ pc = "FromJSON"
    /\ structural_tag = NoFormat
    /\ parsed_tag = NoFormat
    /\ error = NoError_
    /\ grammar = NoGrammar
    /\ stages = <<>>
    /\ conv = NoConverter
    /\ rx = NoRegex
    /\ an = NoAnalyzer

\* Lines 1605-1609, once FromJSON has returned.
Parsed(structural_tag_result) ==
    /\ stages' = Append(stages, "parse")
    /\ IF ~structural_tag_result.ok
       THEN /\ error' = structural_tag_result.err
            /\ pc' = "Done"
            /\ UNCHANGED <<structural_tag, parsed_tag>>
       ELSE /\ structural_tag' = structural_tag_result.val
            /\ parsed_tag' = structural_tag_result.val
            /\ pc' = "Analyze"
            /\ UNCHANGED error

StepFromJSON ==
    /\ pc = "FromJSON"
    /\ Parsed(FromJSON(json))
    /\ UNCHANGED <<json, grammar, conv, rx, an>>

\* Lines 1610-1613 without the return on an error of the analysis.
AnalyzedIgnoringError(err) ==
    /\ stages' = Append(stages, "analyze")
    /\ structural_tag' = err.root
    /\ pc' = "Convert"
    /\ UNCHANGED error

\* Lines 1610-1613, once Analyze has returned: the analyzer works on the
\* structural tag in place.
Analyzed(err) ==
    /\ stages' = Append(stages, "analyze")
    /\ structural_tag' = err.root
    /\ IF err.has_value
       THEN /\ error' = InvalidStructuralTagError(err.err)
            /\ pc' = "Done"
       ELSE /\ pc' = "Convert"
            /\ UNCHANGED error

StepAnalyze ==
    /\ pc = "Analyze"
    /\ Analyzed(Analyze(structural_tag))
    /\ UNCHANGED <<json, parsed_tag, grammar, conv, rx, an>>

\* Lines 1614-1617, once Convert has returned.
ConvertedTo(result) ==
    /\ stages' = Append(stages, "convert")
    /\ conv' = result.st
    /\ IF ~result.ok
       THEN /\ error' = InvalidStructuralTagError(result.err)
            /\ pc' = "Done"
            /\ UNCHANGED grammar
       ELSE /\ grammar' = result.grammar
            /\ pc' = "Normalize"
            /\ UNCHANGED error

StepConvert ==
    /\ pc = "Convert"
    /\ ConvertedTo(Convert(structural_tag))
    /\ UNCHANGED <<json, structural_tag, parsed_tag, rx, an>>

\* Line 1618.
StepNormalize ==
    /\ pc = "Normalize"
    /\ grammar' = GrammarNormalizer(grammar)
    /\ stages' = Append(stages, "normalize")
    /\ pc' = "Done"
    /\ UNCHANGED <<json, structural_tag, parsed_tag, error, conv, rx, an>>

Next == StepFromJSON \/ StepAnalyze \/ StepConvert \/ StepNormalize

Spec == Init /\ [][Next]_vars

(***************************************************************************)
(* VisitSub(const RegexFormat&) step by step, on a converter of its own:   *)
(* rx holds the format, the automata under construction and the result.    *)
(* The other variables keep the values of a call that has not started.     *)
(***************************************************************************)
MaxExcludes == 2

MaxExcludeLen == 3

MaxStrLen == 4

\* The bytes the exclusion automaton ranges over.
Bytes == {ByteTable[b + 1] : b \in 0..MaxByte}

\* The excluded_strs of a RegexFormat: the parser admits non-empty strings
\* only.
ExcludeLists ==
    UNION {[1..n -> Strings(Bytes, MaxExcludeLen) \ {<<>>}] : n \in 0..MaxExcludes}

NoFSM == FSMWithStartEnd(<<>>, 0, <<>>)

NoVisit == VisitErr(NewConverter, "")

InitRegex ==
    /\ \E pattern \in RegexPatterns \cup {P_bad}, excluded_strs \in ExcludeLists :
           rx = [step |-> "Build", format |-> RegexFormat(pattern, excluded_strs),
                 regex_fsm |-> NoFSM, exclude_fsm |-> NewFSM, dead_states |-> {},
                 exclude_filter |-> NoFSM, result_fsm_result |-> ResultOk(NoFSM),
                 result |-> NoVisit]
    /\ json = [valid |-> FALSE, value |-> JNumber]
    /\ pc = "VisitSubRegex"
    /\ structural_tag = NoFormat
    /\ parsed_tag = NoFormat
    /\ error = NoError_
    /\ grammar = NoGrammar
    /\ stages = <<>>
    /\ conv = NewConverter
    /\ an = NoAnalyzer

\* Lines 987-1002, once RegexFSMBuilder::Build has returned.
RegexBuilt(regex_fsm_result) ==
    IF ~regex_fsm_result.ok
    THEN rx' = [rx EXCEPT !.step = "Done",
                          !.result = VisitErr(conv, "Failed to build FSM from regex pattern")]
    ELSE rx' = [rx EXCEPT !.step = "Trie", !.regex_fsm = regex_fsm_result.val]

\* Lines 987-1002: the simple path without excludes, or the automaton of the
\* pattern.
RegexBuild ==
    /\ rx.step = "Build"
    /\ IF rx.format.excluded_strs = <<>>
       THEN rx' = [rx EXCEPT !.step = "Done",
                       !.result = ConverterVisitSubRegex(conv, rx.format)]
       ELSE RegexBuilt(RegexFSMBuilder(rx.format.pattern))
    /\ UNCHANGED <<json, pc, structural_tag, parsed_tag, error, grammar, stages, conv, an>>

RegexTrieBuilt(t) ==
    rx' = [rx EXCEPT !.step = "BackEdges", !.exclude_fsm = t.exclude_fsm,
                     !.dead_states = t.dead_states]

\* Step 1, lines 1009-1028.
RegexTrie ==
    /\ rx.step = "Trie"
    /\ RegexTrieBuilt(BuildTrie(rx.format.excluded_strs))
    /\ UNCHANGED <<json, pc, structural_tag, parsed_tag, error, grammar, stages, conv, an>>

\* Step 2, lines 1030-1063.
RegexBackEdges ==
    /\ rx.step = "BackEdges"
    /\ rx' = [rx EXCEPT !.step = "RemoveDead",
                        !.exclude_fsm = AddBackEdges(rx.exclude_fsm, rx.dead_states)]
    /\ UNCHANGED <<json, pc, structural_tag, parsed_tag, error, grammar, stages, conv, an>>

\* Step 3 and the exclusion filter, lines 1065-1084.
RegexRemoveDead ==
    /\ rx.step = "RemoveDead"
    /\ rx' = [rx EXCEPT !.step = "Intersect",
                        !.exclude_fsm = RemoveDeadEdges(rx.exclude_fsm, rx.dead_states),
                        !.exclude_filter =
                            ExcludeFilter(RemoveDeadEdges(rx.exclude_fsm, rx.dead_states),
                                rx.dead_states)]
    /\ UNCHANGED <<json, pc, structural_tag, parsed_tag, error, grammar, stages, conv, an>>

\* Step 4, lines 1086-1094.
RegexIntersect ==
    /\ rx.step = "Intersect"
    /\ rx' = [rx EXCEPT !.step = "Rules",
                        !.result_fsm_result = Intersect(rx.regex_fsm, rx.exclude_filter)]
    /\ UNCHANGED <<json, pc, structural_tag, parsed_tag, error, grammar, stages, conv, an>>

\* Lines 1088-1142: the rules of the states of the product automaton.
RegexRules ==
    /\ rx.step = "Rules"
    /\ rx' = [rx EXCEPT !.step = "Done", !.result = RegexToRules(conv, rx.result_fsm_result)]
    /\ UNCHANGED <<json, pc, structural_tag, parsed_tag, error, grammar, stages, conv, an>>

NextRegex ==
    RegexBuild \/ RegexTrie \/ RegexBackEdges \/ RegexRemoveDead \/ RegexIntersect
    \/ RegexRules

SpecRegex == InitRegex /\ [][NextRegex]_vars

(***************************************************************************)
(* StructuralTagAnalyzer step by step.  an holds the AST the analyzer      *)
(* works on (root), its member stack_, the activations of VisitSub         *)
(* (frames: the path of the format, the number i of visits of children     *)
(* started, the locals of the loop of an Or), the argument of the Visit    *)
(* being entered (arg) and what the last Visit returned (result).  A step  *)
(* runs one VisitSub up to its next call of Visit or to its return.  The   *)
(* other variables keep the values they have when Analyze is called.       *)
(***************************************************************************)
nullopt == [has_value |-> FALSE, err |-> ""]

ISTErrorOf(msg) == [has_value |-> TRUE, err |-> msg]

NewFrame(path) ==
    [path |-> path, i |-> 0, is_any_unlimited |-> FALSE, is_all_unlimited |-> TRUE]

InitAnalyzer ==
    /\ \E i \in 1..Len(Documents) :
           /\ json = Documents[i]
           /\ FromJSON(json).ok
           /\ parsed_tag = FromJSON(json).val
    /\ structural_tag = parsed_tag
    /\ pc = "Analyze"
    /\ error = NoError_
    /\ grammar = NoGrammar
    /\ stages = <<"parse">>
    /\ conv = NoConverter
    /\ rx = NoRegex
    /\ an = [step |-> "Visit", root |-> parsed_tag, stack_ |-> <<>>, frames |-> <<>>,
             arg |-> <<>>, result |-> nullopt]

\* The activation of VisitSub that runs, and its format.
TopFrame == an.frames[Len(an.frames)]

TopFormat == GetAt(an.root, TopFrame.path)

\* return result; with the AST as VisitSub leaves it.
ReturnFrom(result, root) ==
    an' = [an EXCEPT !.step = "Return", !.result = result, !.root = root]

\* Visit(&child): the activation waits for the visit of one more child.
CallVisit(path, is_any_unlimited, is_all_unlimited) ==
    an' = [an EXCEPT !.step = "Visit", !.arg = path,
               !.frames[Len(an.frames)] =
                   [path |-> TopFrame.path, i |-> TopFrame.i + 1,
                    is_any_unlimited |-> is_any_unlimited,
                    is_all_unlimited |-> is_all_unlimited]]

\* Lines 622-628: stack_.push_back(format), then the dispatch to VisitSub.
VisitPush ==
    /\ an.step = "Visit"
    /\ an' = [an EXCEPT !.step = "VisitSub", !.stack_ = Append(@, an.arg),
                  !.frames = Append(@, NewFrame(an.arg))]
    /\ UNCHANGED <<json, pc, structural_tag, parsed_tag, error, grammar, stages, conv, rx>>

\* Lines 630-635: stack_.pop_back(), then the return to the caller.
VisitPop ==
    /\ an.step = "Return"
    /\ an' = [an EXCEPT !.step = IF Len(an.frames) = 1 THEN "Done" ELSE "VisitSub",
                  !.stack_ = SubSeq(@, 1, Len(@) - 1),
                  !.frames = SubSeq(@, 1, Len(@) - 1)]
    /\ UNCHANGED <<json, pc, structural_tag, parsed_tag, error, grammar, stages, conv, rx>>

\* Lines 638-648, 655-661: the variants the analyzer leaves alone.
VisitSubLeaf ==
    /\ an.step = "VisitSub"
    /\ TopFormat.kind \in {"ConstStringFormat", "JSONSchemaFormat", "QwenXmlParameterFormat",
                           "GrammarFormat", "RegexFormat"}
    /\ ReturnFrom(nullopt, an.root)
    /\ UNCHANGED <<json, pc, structural_tag, parsed_tag, error, grammar, stages, conv, rx>>

\* Lines 650-653.
VisitSubAnyText ==
    /\ an.step = "VisitSub"
    /\ TopFormat.kind = "AnyTextFormat"
    /\ ReturnFrom(nullopt,
           SetDetectedEndStrs(an.root, TopFrame.path, DetectEndStrings(an.root, an.stack_)))
    /\ UNCHANGED <<json, pc, structural_tag, parsed_tag, error, grammar, stages, conv, rx>>

\* Lines 663-684, from the start or from the return of the visit of
\* element i.
SequenceStep(frame, format) ==
    IF frame.i = 0
    THEN CallVisit(ElementPath(frame.path, 1), FALSE, TRUE)
    ELSE IF an.result.has_value
    THEN ReturnFrom(an.result, an.root)
    ELSE IF frame.i < Len(format.elements)
    THEN IF IsUnlimited(format.elements[frame.i])
         THEN ReturnFrom(ISTErrorOf("Only the last element in a sequence can be unlimited"),
                  an.root)
         ELSE CallVisit(ElementPath(frame.path, frame.i + 1), FALSE, TRUE)
    ELSE ReturnFrom(nullopt,
             SetIsUnlimited(an.root, frame.path, IsUnlimited(format.elements[frame.i])))

VisitSubSequence ==
    /\ an.step = "VisitSub"
    /\ TopFormat.kind = "SequenceFormat"
    /\ SequenceStep(TopFrame, TopFormat)
    /\ UNCHANGED <<json, pc, structural_tag, parsed_tag, error, grammar, stages, conv, rx>>

\* Lines 697-706: after the loop of VisitSub(OrFormat*).
OrChecked(frame, is_any_unlimited, is_all_unlimited) ==
    IF is_any_unlimited /\ ~is_all_unlimited
    THEN ReturnFrom(
             ISTErrorOf("Now we only support all elements in an or format to be unlimited or all limited"),
             an.root)
    ELSE ReturnFrom(nullopt, SetIsUnlimited(an.root, frame.path, is_any_unlimited))

\* Lines 692-695: element i is visited, is_unlimited is its status.
OrElementVisited(frame, format, is_any_unlimited, is_all_unlimited) ==
    IF frame.i < Len(format.elements)
    THEN CallVisit(ElementPath(frame.path, frame.i + 1), is_any_unlimited, is_all_unlimited)
    ELSE OrChecked(frame, is_any_unlimited, is_all_unlimited)

\* Lines 686-707, from the start or from the return of the visit of
\* element i.
OrStep(frame, format) ==
    IF frame.i = 0
    THEN CallVisit(ElementPath(frame.path, 1), FALSE, TRUE)
    ELSE IF an.result.has_value
    THEN ReturnFrom(an.result, an.root)
    ELSE OrElementVisited(frame, format,
             frame.is_any_unlimited \/ IsUnlimited(format.elements[frame.i]),
             frame.is_all_unlimited /\ IsUnlimited(format.elements[frame.i]))

VisitSubOr ==
    /\ an.step = "VisitSub"
    /\ TopFormat.kind = "OrFormat"
    /\ OrStep(TopFrame, TopFormat)
    /\ UNCHANGED <<json, pc, structural_tag, parsed_tag, error, grammar, stages, conv, rx>>

\* VisitSub(TagFormat*) that clears the end strings before it visits the
\* content.
TagStepClearingFirst(frame, format) ==
    IF frame.i = 0
    THEN an' = [an EXCEPT !.step = "Visit",
                    !.arg = Append(frame.path, Step("content", 0)),
                    !.frames[Len(an.frames)] = [frame EXCEPT !.i = 1],
                    !.root = SetAt(an.root, frame.path, [format EXCEPT !.end = <<>>])]
    ELSE ReturnFrom(an.result, an.root)

\* Lines 711-733, from the start or from the return of the visit of the
\* content.
TagStep(frame, format) ==
    IF frame.i = 0
    THEN CallVisit(Append(frame.path, Step("content", 0)), FALSE, TRUE)
    ELSE IF an.result.has_value
    THEN ReturnFrom(an.result, an.root)
    ELSE IF IsUnlimited(format.content)
    THEN IF ~(\E i \in 1..Len(format.end) : format.end[i] # <<>>)
         THEN ReturnFrom(
                  ISTErrorOf("When the content is unlimited, at least one end string must be non-empty"),
                  an.root)
         ELSE ReturnFrom(nullopt, SetAt(an.root, frame.path, [format EXCEPT !.end = <<>>]))
    ELSE ReturnFrom(nullopt, an.root)

VisitSubTag ==
    /\ an.step = "VisitSub"
    /\ TopFormat.kind = "TagFormat"
    /\ TagStep(TopFrame, TopFormat)
    /\ UNCHANGED <<json, pc, structural_tag, parsed_tag, error, grammar, stages, conv, rx>>

\* Lines 735-755, from the start or from the return of the visit of tag i.
TagsStep(frame, format) ==
    IF frame.i > 0 /\ an.result.has_value
    THEN ReturnFrom(an.result, an.root)
    ELSE IF frame.i < Len(format.tags)
    THEN CallVisit(Append(frame.path, Step("tags", frame.i + 1)), FALSE, TRUE)
    ELSE ReturnFrom(nullopt,
             SetDetectedEndStrs(an.root, frame.path, DetectEndStrings(an.root, an.stack_)))

VisitSubTags ==
    /\ an.step = "VisitSub"
    /\ TopFormat.kind \in {"TriggeredTagsFormat", "TagsWithSeparatorFormat"}
    /\ TagsStep(TopFrame, TopFormat)
    /\ UNCHANGED <<json, pc, structural_tag, parsed_tag, error, grammar, stages, conv, rx>>

NextAnalyzer ==
    VisitPush \/ VisitPop \/ VisitSubLeaf \/ VisitSubAnyText \/ VisitSubSequence
    \/ VisitSubOr \/ VisitSubTag \/ VisitSubTags

SpecAnalyzer == InitAnalyzer /\ [][NextAnalyzer]_vars

\* Analyze has returned in the step-by-step analyzer with what Analyze of
\* the whole AST returns.
AnalyzerStepsAgree ==
    an.step = "Done" =>
        /\ an.root = Analyze(parsed_tag).root
        /\ an.result.has_value = Analyze(parsed_tag).has_value
        /\ an.result.err = Analyze(parsed_tag).err

(***************************************************************************)
(* The claims.                                                             *)
(***************************************************************************)
\* The byte strings the languages are compared on.
TestStrings == Strings(Bytes, MaxStrLen)

\* The exclusion filter of rx is built.
FilterBuilt == rx.step \in {"Intersect", "Rules"} \/ (rx.step = "Done" /\ rx.regex_fsm # NoFSM)

\* The regex-with-excludes path has returned a rule.
RegexRuleBuilt == rx.step = "Done" /\ rx.regex_fsm # NoFSM /\ rx.result.ok

\* The exclusion DFA accepts exactly the byte strings that contain no
\* excluded string.
ExcludeFilterExact ==
    FilterBuilt =>
        \A s \in TestStrings :
            FSMAccepts(rx.exclude_filter, s) <=> ~ContainsAny(s, rx.format.excluded_strs)

\* The rule of the regex-with-excludes path generates s iff s is in L(R)
\* and contains no excluded string.
RegexRuleExact ==
    RegexRuleBuilt =>
        \A s \in TestStrings :
            RuleDerives(rx.result.st.grammar_builder_, rx.result.rule_id, s)
                <=> (FSMAccepts(rx.regex_fsm, s) /\ ~ContainsAny(s, rx.format.excluded_strs))

\* C1: for every regex R and every non-empty list E of non-empty excluded
\* strings, the rule built by the regex-with-excludes path generates a byte
\* string s iff s is in L(R) and no element of E occurs in s; and the
\* exclusion DFA built from E accepts exactly the byte strings that contain
\* no element of E.
RegexExcludeSoundness == ExcludeFilterExact /\ RegexRuleExact

\* C1: the path has returned a rule for [a-f]* without "aab", and the rule
\* generates "aaab".
RegexExcludeMissedOverlap ==
    /\ RegexRuleBuilt
    /\ rx.format = RegexFormat(P_any_star, <<<<"a", "a", "b">>>>)
    /\ RuleDerives(rx.result.st.grammar_builder_, rx.result.rule_id, <<"a", "a", "a", "b">>)
    /\ FSMAccepts(rx.exclude_filter, <<"a", "a", "a", "b">>)

\* The stage has run in the call.
Ran(stage) == \E i \in 1..Len(stages) : stages[i] = stage

\* The analysis has returned without an error.
AnalysisSucceeded == Ran("analyze") /\ (Ran("convert") \/ error = NoError_)

\* The steps from a format to the formats it holds.
ChildSteps(node) ==
    CASE node.kind \in {"SequenceFormat", "OrFormat"} ->
           [i \in 1..Len(node.elements) |-> Step("elements", i)]
      [] node.kind = "TagFormat" -> <<Step("content", 0)>>
      [] node.kind \in {"TriggeredTagsFormat", "TagsWithSeparatorFormat"} ->
           [i \in 1..Len(node.tags) |-> Step("tags", i)]
      [] OTHER -> <<>>

\* The paths of the formats of an AST, the root's included.
RECURSIVE PathsFrom(_, _)
PathsFrom(root, path) ==
    {path} \cup UNION {PathsFrom(root, Append(path, ChildSteps(GetAt(root, path))[i])) :
                          i \in 1..Len(ChildSteps(GetAt(root, path)))}

Paths(root) == PathsFrom(root, <<>>)

\* The number of triggers that are a prefix of the begin of a tag.
TriggersMatching(format, tag) ==
    Cardinality({i \in 1..Len(format.triggers) : IsPrefix(format.triggers[i], tag.begin)})

\* A TriggeredTags with a tag that has no trigger, or more than one.
TriggerMismatch(format) ==
    /\ format.kind = "TriggeredTagsFormat"
    /\ \E i \in 1..Len(format.tags) : TriggersMatching(format, format.tags[i]) # 1

HasTriggerMismatch(root) == \E p \in Paths(root) : TriggerMismatch(GetAt(root, p))

\* C2: every input that parses and analyzes and holds, anywhere in its AST,
\* a TriggeredTags with a tag whose begin has no trigger or more than one
\* trigger as a prefix is rejected by the conversion with an error, also
\* when the TriggeredTags comes after another one with the same triggers
\* and flags.
TriggerUniqueness ==
    (Ran("convert") /\ HasTriggerMismatch(structural_tag)) =>
        /\ error.type = "InvalidStructuralTagError"
        /\ grammar = NoGrammar
        /\ ~Ran("normalize")

\* C2: a grammar is returned for an input with a tag that no trigger
\* matches.
TriggerMismatchConverted ==
    /\ pc = "Done"
    /\ Ran("normalize")
    /\ error = NoError_
    /\ HasTriggerMismatch(structural_tag)

\* The unlimited status of a format of the analyzed AST.
UnlimitedStatus(format) ==
    CASE format.kind \in {"AnyTextFormat", "TriggeredTagsFormat", "TagsWithSeparatorFormat"}
           -> TRUE
      [] format.kind \in {"SequenceFormat", "OrFormat"} -> format.is_unlimited_
      [] OTHER -> FALSE

\* A sequence or an or of the analyzed AST is placed well, and its flag is
\* the status of its elements.
PlacedWell(format) ==
    /\ format.kind = "SequenceFormat" =>
           /\ \A i \in 1..(Len(format.elements) - 1) : ~UnlimitedStatus(format.elements[i])
           /\ format.is_unlimited_ = UnlimitedStatus(format.elements[Len(format.elements)])
    /\ format.kind = "OrFormat" =>
           /\ \/ \A i \in 1..Len(format.elements) : UnlimitedStatus(format.elements[i])
              \/ \A i \in 1..Len(format.elements) : ~UnlimitedStatus(format.elements[i])
           /\ format.is_unlimited_ =
                  (\A i \in 1..Len(format.elements) : UnlimitedStatus(format.elements[i]))

\* The unlimited status of a format by its shape, before the analysis has
\* set a flag.
RECURSIVE UnlimitedByShape(_)
UnlimitedByShape(format) ==
    CASE format.kind \in {"AnyTextFormat", "TriggeredTagsFormat", "TagsWithSeparatorFormat"}
           -> TRUE
      [] format.kind = "SequenceFormat" ->
           UnlimitedByShape(format.elements[Len(format.elements)])
      [] format.kind = "OrFormat" ->
           \A i \in 1..Len(format.elements) : UnlimitedByShape(format.elements[i])
      [] OTHER -> FALSE

\* A sequence with an unlimited element before the last, or an or with
\* unlimited and limited elements.
PlacementViolated(format) ==
    \/ /\ format.kind = "SequenceFormat"
       /\ \E i \in 1..(Len(format.elements) - 1) : UnlimitedByShape(format.elements[i])
    \/ /\ format.kind = "OrFormat"
       /\ \E i \in 1..Len(format.elements) : UnlimitedByShape(format.elements[i])
       /\ \E i \in 1..Len(format.elements) : ~UnlimitedByShape(format.elements[i])

\* The analysis has ended the call with an error.
AnalysisRejected ==
    /\ stages = <<"parse", "analyze">>
    /\ pc = "Done"
    /\ error.type = "InvalidStructuralTagError"

\* C3: the analysis succeeds only if in every Sequence all elements but the
\* last are limited and in every Or all elements are unlimited or none is;
\* an input that violates this is rejected with an error; on success the
\* flag of a Sequence is the status of its last element and the flag of an
\* Or is true iff all its elements are unlimited.
UnlimitedPlacement ==
    /\ AnalysisSucceeded =>
           /\ \A p \in Paths(structural_tag) : PlacedWell(GetAt(structural_tag, p))
           /\ \A p \in Paths(parsed_tag) : ~PlacementViolated(GetAt(parsed_tag, p))
    /\ (Ran("analyze") /\ \E p \in Paths(parsed_tag) : PlacementViolated(GetAt(parsed_tag, p)))
           => AnalysisRejected

\* C3: an analyzed AST with an unlimited Or that holds an unlimited Sequence
\* of two elements.
UnlimitedOrOfSequence ==
    /\ AnalysisSucceeded
    /\ \E p \in Paths(structural_tag) :
           /\ GetAt(structural_tag, p).kind = "OrFormat"
           /\ GetAt(structural_tag, p).is_unlimited_
           /\ \E i \in 1..Len(GetAt(structural_tag, p).elements) :
                  /\ GetAt(structural_tag, p).elements[i].kind = "SequenceFormat"
                  /\ GetAt(structural_tag, p).elements[i].is_unlimited_
                  /\ Len(GetAt(structural_tag, p).elements[i].elements) = 2

\* C3: an input with an unlimited element before the last of a Sequence, or
\* with a mixed Or, that the analysis has rejected.
MisplacedRejected ==
    /\ AnalysisRejected
    /\ \E p \in Paths(parsed_tag) : PlacementViolated(GetAt(parsed_tag, p))

\* The enclosing Tags of the format at p, by the length of their paths.
EnclosingTags(root, p) ==
    {k \in 0..(Len(p) - 1) : GetAt(root, SubSeq(p, 1, k)).kind = "TagFormat"}

\* The path of the nearest enclosing Tag of the format at p.
NearestTag(root, p) ==
    SubSeq(p, 1, CHOOSE k \in EnclosingTags(root, p) : \A j \in EnclosingTags(root, p) : j <= k)

\* The formats that carry detected end strings.
CarriesEndStrings(format) ==
    format.kind \in {"AnyTextFormat", "TriggeredTagsFormat", "TagsWithSeparatorFormat"}

\* The format at p is a Tag with unlimited content.
UnlimitedTag(root, p) ==
    /\ GetAt(root, p).kind = "TagFormat"
    /\ UnlimitedStatus(GetAt(root, p).content)

\* The format at q carries the end list the Tag at p had after parsing.
CarriesEndOf(q, p) ==
    /\ CarriesEndStrings(GetAt(structural_tag, q))
    /\ EnclosingTags(structural_tag, q) # {}
    /\ NearestTag(structural_tag, q) = p
    /\ GetAt(structural_tag, q).detected_end_strs_ = GetAt(parsed_tag, p).end

\* C4: after a successful analysis every Tag T with unlimited content has an
\* empty end; every AnyText, TriggeredTags and TagsWithSeparator whose
\* nearest enclosing Tag is T has detected end strings equal to the end list
\* T had after parsing; such a format without an enclosing Tag has none; and
\* the end list of T is carried by a format below T, so none of it is lost.
TagEndClearing ==
    AnalysisSucceeded =>
        \A p \in Paths(structural_tag) :
            /\ UnlimitedTag(structural_tag, p) =>
                   /\ GetAt(structural_tag, p).end = <<>>
                   /\ GetAt(parsed_tag, p).end # <<>>
                   /\ \E q \in Paths(structural_tag) : CarriesEndOf(q, p)
            /\ CarriesEndStrings(GetAt(structural_tag, p)) =>
                   IF EnclosingTags(structural_tag, p) = {}
                   THEN GetAt(structural_tag, p).detected_end_strs_ = <<>>
                   ELSE UnlimitedTag(structural_tag, NearestTag(structural_tag, p)) =>
                            CarriesEndOf(p, NearestTag(structural_tag, p))

\* C4: an analyzed Tag inside another Tag, with two end strings after
\* parsing, none after the analysis, and TriggeredTags as its content that
\* carry the two.
NestedTagEndMoved ==
    /\ AnalysisSucceeded
    /\ \E p \in Paths(structural_tag) :
           /\ UnlimitedTag(structural_tag, p)
           /\ EnclosingTags(structural_tag, p) # {}
           /\ Len(GetAt(parsed_tag, p).end) = 2
           /\ GetAt(structural_tag, p).end = <<>>
           /\ GetAt(structural_tag, p).content.kind = "TriggeredTagsFormat"
           /\ GetAt(structural_tag, p).content.detected_end_strs_ = GetAt(parsed_tag, p).end

\* The calls of Visit that had returned a rule for the fingerprint of the
\* call v when v was made, by their index in the record of the visits.
ConvertedBefore(v) ==
    {i \in 1..Len(conv.visits) :
        /\ conv.visits[i].ok
        /\ conv.visits[i].fingerprint = v.fingerprint
        /\ conv.visits[i].ret < v.call}

\* The first of the calls S.
FirstCall(S) == CHOOSE i \in S : \A j \in S : conv.visits[i].call <= conv.visits[j].call

\* A call of Visit on a fingerprint already converted returns the rule of
\* the first call and adds nothing to the grammar builder.
DedupOnRevisit ==
    Ran("convert") =>
        \A k \in 1..Len(conv.visits) :
            ConvertedBefore(conv.visits[k]) # {} =>
                /\ conv.visits[k].ok
                /\ conv.visits[k].rule_id =
                       conv.visits[FirstCall(ConvertedBefore(conv.visits[k]))].rule_id
                /\ conv.visits[k].rules_after = conv.visits[k].rules_before
                /\ conv.visits[k].exprs_after = conv.visits[k].exprs_before

\* Two equal subtrees, annotations included, resolve to the same rule id.
EqualSubtreesShareRule ==
    Ran("convert") =>
        \A i, j \in 1..Len(conv.visits) :
            (conv.visits[i].ok /\ conv.visits[j].ok
                 /\ conv.visits[i].format = conv.visits[j].format)
                => conv.visits[i].rule_id = conv.visits[j].rule_id

\* C5: within one conversion a call of Visit on a format whose fingerprint
\* is that of a format already converted returns the rule id of the first
\* call and adds no rule and no expression; so two syntactically equal
\* subtrees with equal analysis annotations resolve to the same rule id.
DedupInvariant == DedupOnRevisit /\ EqualSubtreesShareRule

\* C5: a conversion that has returned a grammar and has resolved two equal
\* TriggeredTags subtrees to two rules.
EqualSubtreesTwoRules ==
    /\ pc = "Done"
    /\ error = NoError_
    /\ \E i, j \in 1..Len(conv.visits) :
           /\ conv.visits[i].format = conv.visits[j].format
           /\ conv.visits[i].format.kind = "TriggeredTagsFormat"
           /\ conv.visits[i].ok /\ conv.visits[j].ok
           /\ conv.visits[i].rule_id # conv.visits[j].rule_id

\* The byte strings the languages of the grammars are compared on: the
\* bytes of the begins, the contents and the ends of the documents.
LanguageStrings == Strings({"a", "b", "c"}, MaxStrLen)

\* The rule rule_id of gb generates, on the strings compared, what the rule
\* that a conversion without the cache has returned generates.
SameLanguage(gb, rule_id, fresh) ==
    \A s \in LanguageStrings :
        RuleDerives(gb, rule_id, s)
            <=> (fresh.ok /\ RuleDerives(fresh.st.grammar_builder_, fresh.rule_id, s))

\* Every rule the cache has answered with generates the language of a
\* conversion of the format without the cache.
CachedRuleEquivalent ==
    Ran("convert") =>
        \A k \in 1..Len(conv.visits) :
            conv.visits[k].hit =>
                SameLanguage(conv.grammar_builder_, conv.visits[k].rule_id,
                    ConverterVisit(FreshConverter, conv.visits[k].format))

\* The grammar g accepts, on the strings compared, what the grammar of the
\* conversion `fresh` accepts.
SameGrammarLanguage(g, fresh) ==
    fresh.ok /\ \A s \in LanguageStrings : Accepts(g, s) <=> Accepts(fresh.grammar, s)

\* The grammar returned and the grammar of a conversion without the cache
\* are language-equivalent.
CacheFreeEquivalent ==
    (pc = "Done" /\ error = NoError_) =>
        SameGrammarLanguage(grammar, ConvertWith(FreshConverter, structural_tag))

\* The conversion `fresh` accepts s and the grammar returned does not.
AcceptedWithoutCacheOnly(fresh, s) ==
    fresh.ok /\ Accepts(fresh.grammar, s) /\ ~Accepts(grammar, s)

\* C6: formats with identical fingerprints can reuse the same rule: whenever
\* the converter answers a Visit from the fingerprint cache, the cached rule
\* generates the language of the rule a conversion of that format without
\* the cache generates; and the conversion with the cache and the one
\* without it yield language-equivalent grammars.
FingerprintReuseSound == CachedRuleEquivalent /\ CacheFreeEquivalent

\* C6: a grammar is returned for an Or of two TriggeredTags, the second
\* answered from the cache; a conversion without the cache accepts "abbc",
\* the grammar returned does not.
CachedRuleLosesTag ==
    /\ pc = "Done"
    /\ error = NoError_
    /\ structural_tag.kind = "OrFormat"
    /\ \E k \in 1..Len(conv.visits) :
           conv.visits[k].hit /\ conv.visits[k].format.kind = "TriggeredTagsFormat"
    /\ AcceptedWithoutCacheOnly(ConvertWith(FreshConverter, structural_tag),
           <<"a", "b", "b", "c">>)

\* The stages of StructuralTagToGrammar, in their order.
StageOrder == <<"parse", "analyze", "convert", "normalize">>

\* The position of the call after n stages without an error.
PositionAfter(n) ==
    CASE n = 0 -> "FromJSON" [] n = 1 -> "Analyze" [] n = 2 -> "Convert"
      [] n = 3 -> "Normalize" [] OTHER -> "Done"

\* Stage n has succeeded on what the stages before it have left.
StageSucceeded(n) ==
    CASE n = 1 -> FromJSON(json).ok /\ parsed_tag = FromJSON(json).val
      [] n = 2 -> ~Analyze(parsed_tag).has_value /\ structural_tag = Analyze(parsed_tag).root
      [] n = 3 -> Convert(structural_tag).ok
      [] OTHER -> grammar = GrammarNormalizer(Convert(structural_tag).grammar)

\* Stage n has failed, and the error of the call is its error.
StageFailed(n) ==
    CASE n = 1 -> ~FromJSON(json).ok /\ error = FromJSON(json).err
      [] n = 2 -> /\ Analyze(parsed_tag).has_value
                  /\ error = InvalidStructuralTagError(Analyze(parsed_tag).err)
      [] n = 3 -> /\ ~Convert(structural_tag).ok
                  /\ error = InvalidStructuralTagError(Convert(structural_tag).err)
      [] OTHER -> FALSE

\* C7: StructuralTagToGrammar runs parse, analyze, convert, normalize in
\* this order; the first stage that fails ends the call with the error of
\* that stage, no later stage runs and no grammar is returned; a grammar is
\* returned only when parse, analysis and conversion have all succeeded, and
\* it is the output of the normalizer.
StagesInOrder ==
    /\ Len(stages) <= Len(StageOrder)
    /\ stages = SubSeq(StageOrder, 1, Len(stages))
    /\ IF error = NoError_
       THEN /\ pc = PositionAfter(Len(stages))
            /\ \A n \in 1..Len(stages) : StageSucceeded(n)
       ELSE /\ pc = "Done"
            /\ Len(stages) >= 1
            /\ \A n \in 1..(Len(stages) - 1) : StageSucceeded(n)
            /\ StageFailed(Len(stages))
            /\ grammar = NoGrammar
    /\ (pc = "Done" /\ grammar # NoGrammar) =>
           /\ error = NoError_
           /\ stages = StageOrder
           /\ grammar.normalized

\* C7: a call that the conversion has ended with an error, after a parse
\* and an analysis that succeeded, and without a grammar.
ConversionEndedCall ==
    /\ pc = "Done"
    /\ stages = <<"parse", "analyze", "convert">>
    /\ error.type = "InvalidStructuralTagError"
    /\ grammar = NoGrammar
    /\ conv.grammar_builder_.rules # <<>>

\* The steps from a JSON value to the values it holds.
JsonSteps(value) ==
    CASE value.t = "object" -> {Step(f, 0) : f \in DOMAIN value.v}
      [] value.t = "array" -> {Step("", i) : i \in 1..Len(value.v)}
      [] OTHER -> {}

JsonChild(value, step) ==
    IF value.t = "object" THEN value.v[step.f] ELSE value.v[step.i]

RECURSIVE JsonAt(_, _)
JsonAt(value, path) ==
    IF path = <<>> THEN value ELSE JsonAt(JsonChild(value, Head(path)), Tail(path))

\* The paths of the values of a JSON value, itself included.
RECURSIVE JsonPaths(_)
JsonPaths(value) ==
    {<<>>} \cup UNION {{<<step>> \o p : p \in JsonPaths(JsonChild(value, step))} :
                          step \in JsonSteps(value)}

\* The document is a structural tag with a format field: ParseFormat is
\* called on the field.
HasTopFormat ==
    /\ json.valid
    /\ json.value.t = "object"
    /\ Has(json.value.v, "type") =>
           (json.value.v.type.t = "string" /\ json.value.v.type.v = T_structural_tag)
    /\ Has(json.value.v, "format")

\* The parse stage has returned what ParseFormat is expected to return on
\* the format field.
ParseReturned(expected) ==
    IF expected.ok
    THEN /\ parsed_tag = expected.val
         /\ pc = "Analyze" \/ Ran("analyze")
    ELSE /\ stages = <<"parse">>
         /\ pc = "Done"
         /\ error = InvalidStructuralTagError(expected.err)

\* The results of the variant parsers in the order of the inference.
InferenceOrder(obj) ==
    << ParseTagFormat(obj), ParseConstStringFormat(obj), ParseJSONSchemaFormat(obj),
       ParseAnyTextFormat(obj), ParseSequenceFormat(obj), ParseOrFormat(obj),
       ParseTriggeredTagsFormat(obj), ParseTagsWithSeparatorFormat(obj) >>

\* The first success of results, or the failure of the inference.
FirstSuccess(results) ==
    IF \E i \in 1..Len(results) : results[i].ok
    THEN results[CHOOSE i \in 1..Len(results) :
                     results[i].ok /\ \A j \in 1..(i - 1) : ~results[j].ok]
    ELSE ResultErr("Invalid format")

IsUntypedObject(value) == value.t = "object" /\ ~Has(value.v, "type")

\* format, the result of ParseFormat on an object without a type, is the
\* first success `expected`; it is a Tag when the object validates as a Tag,
\* and never one of the variants that are not inferred.
InferredAs(format, expected, tag_format) ==
    /\ format = expected
    /\ tag_format.ok => (format.ok /\ format.val.kind = "TagFormat")
    /\ format.ok =>
           format.val.kind \notin {"QwenXmlParameterFormat", "GrammarFormat", "RegexFormat"}

NamedVariants(obj) ==
    << <<T_const_string, ParseConstStringFormat(obj)>>,
       <<T_json_schema, ParseJSONSchemaFormat(obj)>>,
       <<T_any_text, ParseAnyTextFormat(obj)>>,
       <<T_sequence, ParseSequenceFormat(obj)>>,
       <<T_or, ParseOrFormat(obj)>>,
       <<T_tag, ParseTagFormat(obj)>>,
       <<T_triggered_tags, ParseTriggeredTagsFormat(obj)>>,
       <<T_tags_with_separator, ParseTagsWithSeparatorFormat(obj)>>,
       <<T_qwen_xml_parameter, ParseQwenXmlParameterFormat(obj)>>,
       <<T_grammar, ParseGrammarFormat(obj)>>,
       <<T_regex, ParseRegexFormat(obj)>> >>

\* The result of the variant the type names; an error when the type is not
\* a string or not one of the eleven.
NamedVariant(type, variants) ==
    IF type.t # "string"
    THEN ResultErr("Format's type must be a string")
    ELSE IF \E i \in 1..Len(variants) : variants[i][1] = type.v
    THEN variants[CHOOSE i \in 1..Len(variants) : variants[i][1] = type.v][2]
    ELSE ResultErr("Format type not recognized")

IsTypedObject(value) == value.t = "object" /\ Has(value.v, "type")

\* C9: for a format object with a type field ParseFormat returns the result
\* of the variant parser the type names, success or error, and never infers
\* the variant; a type that is not a string or not one of the eleven known
\* strings is an error.
ExplicitTypeDispatch ==
    Ran("parse") =>
        /\ \A p \in JsonPaths(json.value) :
               IsTypedObject(JsonAt(json.value, p)) =>
                   ParseFormat(JsonAt(json.value, p)) =
                       NamedVariant(JsonAt(json.value, p).v.type,
                           NamedVariants(JsonAt(json.value, p).v))
        /\ (HasTopFormat /\ IsTypedObject(json.value.v.format)) =>
               ParseReturned(NamedVariant(json.value.v.format.v.type,
                                 NamedVariants(json.value.v.format.v)))

\* C9: a format of type const_string that validates as a Tag only has
\* ended the call with the error of the ConstString parser.
NamedVariantErrorKept ==
    /\ stages = <<"parse">>
    /\ pc = "Done"
    /\ HasTopFormat
    /\ IsTypedObject(json.value.v.format)
    /\ json.value.v.format.v.type.t = "string"
    /\ json.value.v.format.v.type.v = T_const_string
    /\ ParseTagFormat(json.value.v.format.v).ok
    /\ error = InvalidStructuralTagError(ParseConstStringFormat(json.value.v.format.v).err)

\* A format of the parsed AST has what it must have at least one of.
NonEmptyFormat(format) ==
    /\ format.kind \in {"SequenceFormat", "OrFormat"} => Len(format.elements) >= 1
    /\ format.kind = "TagFormat" => Len(format.end) >= 1
    /\ format.kind = "TriggeredTagsFormat" =>
           (Len(format.triggers) >= 1 /\ Len(format.tags) >= 1)
    /\ format.kind = "TagsWithSeparatorFormat" => Len(format.tags) >= 1

\* An object without an end field, or with an empty end array.
LacksEnd(value) ==
    /\ value.t = "object"
    /\ ~Has(value.v, "end") \/ (value.v.end.t = "array" /\ value.v.end.v = <<>>)

\* C10: in every AST a successful parse returns every Sequence and every Or
\* has at least one element, also after nested sequences were inlined, every
\* Tag has at least one end string (an empty end array or a missing end
\* field is an error), every TriggeredTags has at least one trigger and one
\* tag and every TagsWithSeparator at least one tag.
NonEmptyAfterParse ==
    /\ (pc = "Analyze" \/ Ran("analyze")) =>
           \A p \in Paths(parsed_tag) : NonEmptyFormat(GetAt(parsed_tag, p))
    /\ Ran("parse") =>
           \A p \in JsonPaths(json.value) :
               LacksEnd(JsonAt(json.value, p)) => ~ParseTagFormat(JsonAt(json.value, p).v).ok

\* C10: a parsed Sequence of more elements than its array has, the nested
\* sequences inlined.
InlinedSequenceParsed ==
    /\ pc = "Analyze"
    /\ parsed_tag.kind = "SequenceFormat"
    /\ Len(parsed_tag.elements) > Len(json.value.v.format.v.elements.v)
    /\ \A i \in 1..Len(parsed_tag.elements) : parsed_tag.elements[i].kind # "SequenceFormat"

\* The Tag at p had, after parsing, unlimited content and end strings that
\* are all empty.
UnlimitedTagWithoutEnd(root, p) ==
    /\ GetAt(root, p).kind = "TagFormat"
    /\ UnlimitedByShape(GetAt(root, p).content)
    /\ \A i \in 1..Len(GetAt(root, p).end) : GetAt(root, p).end[i] = <<>>

\* The Tag at p of the analyzed AST has an empty end iff its content is
\* unlimited, and the end list it had after parsing if its content is
\* limited.
EndMatchesContent(p) ==
    /\ (GetAt(structural_tag, p).end = <<>>) <=>
           UnlimitedStatus(GetAt(structural_tag, p).content)
    /\ ~UnlimitedStatus(GetAt(structural_tag, p).content) =>
           GetAt(structural_tag, p).end = GetAt(parsed_tag, p).end

\* C11: after a successful analysis the end of every Tag of the AST, the
\* tags of TriggeredTags and TagsWithSeparator included, is empty iff the
\* content of the Tag is unlimited; a Tag with unlimited content whose end
\* strings are all empty is rejected; a Tag with limited content keeps its
\* end list.
TagEndIffUnlimited ==
    /\ AnalysisSucceeded =>
           \A p \in Paths(structural_tag) :
               GetAt(structural_tag, p).kind = "TagFormat" => EndMatchesContent(p)
    /\ (Ran("analyze") /\ \E p \in Paths(parsed_tag) : UnlimitedTagWithoutEnd(parsed_tag, p))
           => AnalysisRejected

\* C11: an analyzed TriggeredTags with a tag of unlimited content, its end
\* cleared, in an AST with a Tag of limited content that has kept its end
\* list.
TagsOfBothKindsAnalyzed ==
    /\ AnalysisSucceeded
    /\ \E p \in Paths(structural_tag) :
           /\ GetAt(structural_tag, p).kind = "TriggeredTagsFormat"
           /\ \E i \in 1..Len(GetAt(structural_tag, p).tags) :
                  /\ UnlimitedStatus(GetAt(structural_tag, p).tags[i].content)
                  /\ GetAt(structural_tag, p).tags[i].end = <<>>
    /\ \E q \in Paths(structural_tag) :
           /\ GetAt(structural_tag, q).kind = "TagFormat"
           /\ ~UnlimitedStatus(GetAt(structural_tag, q).content)
           /\ GetAt(structural_tag, q).end = GetAt(parsed_tag, q).end
           /\ GetAt(structural_tag, q).end # <<>>

(***************************************************************************)
(* The call on the inputs of the lowering: tags, triggered tags and tags   *)
(* with a separator, with one or several end strings, at the top and       *)
(* inside a tag whose end strings they detect.                             *)
(***************************************************************************)
\* The end fields of the tags around triggered tags and tags with a
\* separator: the last is the separator.
OuterEnds == GoodEnds \o <<JString(<<",">>)>>

\* Tags of a tags array with one or several end strings.
TagsWithEnds ==
    Map(GoodEnds, LAMBDA e : <<JObject(TagFields(<<"a", "b">>, ConstStringJson(<<"a">>), e))>>)

\* Tags arrays of short tags: the tag "a", and the tags "a" and "ba".
ShortTags ==
    << <<JObject(TagFields(<<>>, ConstStringJson(<<"a">>), JString(<<>>)))>>,
       <<JObject(TagFields(<<>>, ConstStringJson(<<"a">>), JString(<<>>))),
         JObject(TagFields(<<"b">>, ConstStringJson(<<"a">>), JString(<<>>)))>> >>

InnerTagsJson ==
    TriggeredTagsJson(<<<<<<"a">>>>>>,
        NonEmptyArrays(TagsOf(<<ConstStringJson(<<"a">>)>>), 1) \o TagsWithEnds)
    \o TagsWithSeparatorJson(<<<<>>, <<",">>>>,
           NonEmptyArrays(TagsOf(<<ConstStringJson(<<"a">>)>>), 1) \o ShortTags)

LoweringJson ==
    Kids1
    \o TagJson(<<<<"a">>>>, Kids1, GoodEnds)
    \o ElementsJson(T_or, Kids0)
    \o TriggeredTagsJson(<<<<<<"a">>>>>>,
           NonEmptyArrays(TagsOf(<<ConstStringJson(<<"a">>), AnyTextJson>>), MaxElements)
               \o TagsWithEnds)
    \o TagsWithSeparatorJson(<<<<>>, <<",">>>>,
           NonEmptyArrays(TagsOf(<<ConstStringJson(<<"a">>)>>), MaxElements) \o ShortTags)
    \o Cross(InnerTagsJson, OuterEnds, LAMBDA c, e : Typed(T_tag, TagFields(<<"b">>, c, e)))

LoweringDocuments ==
    Map(LoweringJson, LAMBDA f : [valid |-> TRUE, value |-> JObject([format |-> f])])

InitLowering ==
    /\ \E i \in 1..Len(LoweringDocuments) : json = LoweringDocuments[i]
    /\ pc = "FromJSON"
    /\ structural_tag = NoFormat
    /\ parsed_tag = NoFormat
    /\ error = NoError_
    /\ grammar = NoGrammar
    /\ stages = <<>>
    /\ conv = NoConverter
    /\ rx = NoRegex
    /\ an = NoAnalyzer

SpecLowering == InitLowering /\ [][Next]_vars

\* The document with its format f wrapped as the single element of a
\* sequence: {"type": "sequence", "elements": [f]}.
WrapInSequence(document) ==
    [valid |-> document.valid,
     value |-> JObject([document.value.v EXCEPT !.format =
                   Typed(T_sequence, [elements |-> JArray(<<document.value.v.format>>)])])]

\* The stages of the call on the wrapped document.
WrappedParse == FromJSON(WrapInSequence(json))

WrappedAnalysis == Analyze(WrappedParse.val)

WrappedConversion == Convert(WrappedAnalysis.root)

\* The analysis of the wrapped document ends as the analysis of the
\* document has: with an error, or with the analyzed format as the single
\* element of a sequence that is unlimited iff the format is.
WrappedAnalyzedAlike(wrapped) ==
    /\ wrapped.has_value <=> AnalysisRejected
    /\ AnalysisSucceeded =>
           /\ wrapped.root.kind = "SequenceFormat"
           /\ wrapped.root.elements = <<structural_tag>>
           /\ wrapped.root.is_unlimited_ = UnlimitedStatus(structural_tag)

\* C13: for every format f that is not a Sequence and compiles, the
\* sequence with f as its single element compiles too, to a grammar that
\* generates the language of the grammar of f; and the analyzer accepts or
\* rejects the wrapped input as it does f, the wrapper being unlimited iff
\* f is.
SequenceWrapIdempotent ==
    (Ran("analyze") /\ parsed_tag.kind # "SequenceFormat") =>
        /\ WrappedParse.ok
        /\ WrappedParse.val = SequenceFormat(<<parsed_tag>>)
        /\ WrappedAnalyzedAlike(WrappedAnalysis)
        /\ (pc = "Done" /\ error = NoError_) =>
               SameGrammarLanguage(grammar, WrappedConversion)

\* C13: a Tag has compiled to a grammar that accepts "abac", and so does
\* the grammar of the Tag wrapped in a sequence.
WrappedTagCompiled ==
    /\ pc = "Done"
    /\ error = NoError_
    /\ parsed_tag.kind = "TagFormat"
    /\ Accepts(grammar, <<"a", "b", "a", "c">>)
    /\ WrappedConversion.ok
    /\ Accepts(WrappedConversion.grammar, <<"a", "b", "a", "c">>)

\* The byte strings the lowered rules are tried on.
LoweringStrings == Strings({"a", "b", "c", ","}, MaxStrLen)

\* The expression and the rule of an id in the builder.
ExprAt(gb, id) == gb.exprs[id + 1]

RuleAt(gb, id) == gb.rules[id + 1]

\* The expression of an end string: EmptyStr for the empty one.
EndExpr(end_str) ==
    IF end_str = <<>>
    THEN [type |-> "empty_str"]
    ELSE [type |-> "byte_string", bytes |-> end_str]

\* The calls of Visit that have emitted a rule for a format of the kind.
Emitted(kind) ==
    {k \in 1..Len(conv.visits) :
        /\ conv.visits[k].ok
        /\ ~conv.visits[k].hit
        /\ conv.visits[k].format.kind = kind}

\* The id is a rule the call of Visit on `format` has returned inside the
\* call v.
ReturnedWithin(v, format, id) ==
    \E k \in 1..Len(conv.visits) :
        /\ conv.visits[k].format = format
        /\ conv.visits[k].ok
        /\ conv.visits[k].rule_id = id
        /\ v.call < conv.visits[k].call
        /\ conv.visits[k].ret < v.ret

\* The expression is a reference to a rule `hint` that holds one
\* alternative per end string, in order.
IsEndChoices(gb, expr, end, hint) ==
    /\ expr.type = "rule_ref"
    /\ RuleAt(gb, expr.rule_id).name = hint
    /\ ExprAt(gb, RuleAt(gb, expr.rule_id).body).type = "choices"
    /\ Len(ExprAt(gb, RuleAt(gb, expr.rule_id).body).choices) = Len(end)
    /\ \A i \in 1..Len(end) :
           /\ ExprAt(gb, ExprAt(gb, RuleAt(gb, expr.rule_id).body).choices[i]).type = "sequence"
           /\ Len(ExprAt(gb, ExprAt(gb, RuleAt(gb, expr.rule_id).body).choices[i]).elements) = 1
           /\ ExprAt(gb,
                  ExprAt(gb, ExprAt(gb, RuleAt(gb, expr.rule_id).body).choices[i]).elements[1])
                  = EndExpr(end[i])

\* The elements are the sequence of a tag: begin, a reference to the rule
\* of the content, and the end by the number of end strings: none, the
\* end string itself, or the rule `hint` of the end strings.
IsTagSequence(gb, v, elements, begin, content, end, hint) ==
    /\ Len(elements) = (IF end = <<>> THEN 2 ELSE 3)
    /\ ExprAt(gb, elements[1]) = [type |-> "byte_string", bytes |-> begin]
    /\ ExprAt(gb, elements[2]).type = "rule_ref"
    /\ ReturnedWithin(v, content, ExprAt(gb, elements[2]).rule_id)
    /\ Len(end) = 1 => ExprAt(gb, elements[3]) = EndExpr(end[1])
    /\ Len(end) > 1 => IsEndChoices(gb, ExprAt(gb, elements[3]), end, hint)

\* The body is Choices of one Sequence.
IsSingleSequence(gb, body) ==
    /\ ExprAt(gb, body).type = "choices"
    /\ Len(ExprAt(gb, body).choices) = 1
    /\ ExprAt(gb, ExprAt(gb, body).choices[1]).type = "sequence"

\* s is begin, then a string of the rule content_rule_id, then one of the
\* end strings, or nothing when there is no end string.
InTagLanguage(gb, s, begin, content_rule_id, end) ==
    \E i \in 0..Len(s) : \E j \in i..Len(s) :
        /\ SubSeq(s, 1, i) = begin
        /\ RuleDerives(gb, content_rule_id, SubSeq(s, i + 1, j))
        /\ IF end = <<>>
           THEN j = Len(s)
           ELSE \E e \in 1..Len(end) : SubSeq(s, j + 1, Len(s)) = end[e]

\* The rule the call v of Visit has emitted for a Tag.
TagLowered(gb, v, elements) ==
    /\ RuleAt(gb, v.rule_id).name = "tag"
    /\ IsSingleSequence(gb, RuleAt(gb, v.rule_id).body)
    /\ IsTagSequence(gb, v, elements, v.format.begin, v.format.content, v.format.end,
           "tag_end")
    /\ (v.format.end = <<>>) <=> UnlimitedStatus(v.format.content)
    /\ \A s \in LoweringStrings :
           RuleDerives(gb, v.rule_id, s)
               <=> InTagLanguage(gb, s, v.format.begin, ExprAt(gb, elements[2]).rule_id,
                       v.format.end)

\* The elements of the single sequence of the rule.
SequenceElements(gb, rule_id) ==
    ExprAt(gb, ExprAt(gb, RuleAt(gb, rule_id).body).choices[1]).elements

\* C14: the rule emitted for a Tag generates begin, then a string of the
\* content rule, then one of the end strings of the Tag, the empty one
\* contributing the empty string; a single end is inlined, two or more are
\* the alternatives of a rule tag_end that is referenced, and with the end
\* cleared (unlimited content) the rule is begin and the content rule only.
\* A string that lacks every end string is not generated when the content
\* is limited.
TagLowering ==
    Ran("convert") =>
        \A k \in Emitted("TagFormat") :
            TagLowered(conv.grammar_builder_, conv.visits[k],
                SequenceElements(conv.grammar_builder_, conv.visits[k].rule_id))

\* C14: a Tag with the end strings "" and "c" around a Tag with unlimited
\* content has compiled: the rule of the outer one references tag_end and
\* generates "aac" and "aacc" but not "aa", the rule of the inner one is
\* begin and the content rule only.
TagsLoweredBothWays ==
    /\ pc = "Done"
    /\ error = NoError_
    /\ \E k \in Emitted("TagFormat") :
           /\ conv.visits[k].format.end = <<<<>>, <<"c">>>>
           /\ conv.visits[k].format.content.kind = "TagFormat"
           /\ conv.visits[k].format.content.end = <<>>
           /\ RuleDerives(conv.grammar_builder_, conv.visits[k].rule_id, <<"a", "a", "c">>)
           /\ RuleDerives(conv.grammar_builder_, conv.visits[k].rule_id, <<"a", "a", "c", "c">>)
           /\ ~RuleDerives(conv.grammar_builder_, conv.visits[k].rule_id, <<"a", "a">>)
           /\ \E c \in Emitted("TagFormat") :
                  /\ conv.visits[c].format = conv.visits[k].format.content
                  /\ Len(SequenceElements(conv.grammar_builder_, conv.visits[c].rule_id)) = 2

\* The choices that hold the tags of the rule emitted for TriggeredTags in
\* the special case: the body of the rule, or with detected end strings the
\* body of the rule triggered_tags_sub that the rule references first.
TagChoices(gb, v) ==
    IF v.format.detected_end_strs_ = <<>>
    THEN ExprAt(gb, RuleAt(gb, v.rule_id).body).choices
    ELSE ExprAt(gb,
             RuleAt(gb, ExprAt(gb, SequenceElements(gb, v.rule_id)[1]).rule_id).body).choices

\* One alternative per tag: the full begin of the tag, the rule of its
\* content, the expansion of its end.
IsTagChoices(gb, v, choices) ==
    /\ Len(choices) = Len(v.format.tags)
    /\ \A i \in 1..Len(choices) :
           /\ ExprAt(gb, choices[i]).type = "sequence"
           /\ IsTagSequence(gb, v, ExprAt(gb, choices[i]).elements, v.format.tags[i].begin,
                  v.format.tags[i].content, v.format.tags[i].end, "tag_end")

\* With detected end strings the rule is the rule triggered_tags_sub of the
\* tags followed by the expansion of the detected end strings.
IsEndedByDetected(gb, v, elements) ==
    /\ IsSingleSequence(gb, RuleAt(gb, v.rule_id).body)
    /\ Len(elements) = 2
    /\ ExprAt(gb, elements[1]).type = "rule_ref"
    /\ RuleAt(gb, ExprAt(gb, elements[1]).rule_id).name = "triggered_tags_sub"
    /\ ExprAt(gb, RuleAt(gb, ExprAt(gb, elements[1]).rule_id).body).type = "choices"
    /\ Len(v.format.detected_end_strs_) = 1 =>
           ExprAt(gb, elements[2]) = EndExpr(v.format.detected_end_strs_[1])
    /\ Len(v.format.detected_end_strs_) > 1 =>
           IsEndChoices(gb, ExprAt(gb, elements[2]), v.format.detected_end_strs_,
               "end_choices")

\* The tag dispatches added during the call v were added by the calls of
\* Visit inside it.
NoDispatchOfItsOwn(gb, v) ==
    \A x \in (v.exprs_before + 1)..v.exprs_after :
        gb.exprs[x].type = "tag_dispatch" =>
            \E k \in 1..Len(conv.visits) :
                /\ v.call < conv.visits[k].call
                /\ conv.visits[k].ret < v.ret
                /\ conv.visits[k].exprs_before < x
                /\ x <= conv.visits[k].exprs_after

\* s is one tag of the format, followed by one of the detected end strings
\* when there is one.
InOneTagLanguage(gb, v, choices, s) ==
    \E i \in 1..Len(v.format.tags) : \E m \in 0..Len(s) :
        /\ InTagLanguage(gb, SubSeq(s, 1, m), v.format.tags[i].begin,
               ExprAt(gb, ExprAt(gb, choices[i]).elements[2]).rule_id, v.format.tags[i].end)
        /\ IF v.format.detected_end_strs_ = <<>>
           THEN m = Len(s)
           ELSE \E e \in 1..Len(v.format.detected_end_strs_) :
                    SubSeq(s, m + 1, Len(s)) = v.format.detected_end_strs_[e]

\* The rule the call v of Visit has emitted for TriggeredTags with
\* at_least_one and stop_after_first.
OneTagLowered(gb, v) ==
    /\ RuleAt(gb, v.rule_id).name = "triggered_tags"
    /\ ExprAt(gb, RuleAt(gb, v.rule_id).body).type = "choices"
    /\ v.format.detected_end_strs_ # <<>> =>
           IsEndedByDetected(gb, v, SequenceElements(gb, v.rule_id))
    /\ IsTagChoices(gb, v, TagChoices(gb, v))
    /\ NoDispatchOfItsOwn(gb, v)
    /\ ~RuleDerives(gb, v.rule_id, <<>>)
    /\ \A s \in LoweringStrings :
           RuleDerives(gb, v.rule_id, s) <=> InOneTagLanguage(gb, v, TagChoices(gb, v), s)

\* C15: TriggeredTags with at_least_one and stop_after_first generate
\* exactly one tag and no free text: the rule emitted is a choice with one
\* alternative per tag, each the full begin of the tag, its content rule
\* and its end expansion, followed by one of the detected end strings when
\* there are some; no TagDispatch is emitted for the node and the empty
\* string is not generated.
ExactlyOneTag ==
    Ran("convert") =>
        \A k \in Emitted("TriggeredTagsFormat") :
            (conv.visits[k].format.at_least_one /\ conv.visits[k].format.stop_after_first)
                => OneTagLowered(conv.grammar_builder_, conv.visits[k])

\* C15: TriggeredTags with both flags inside a Tag with the end strings "c"
\* and "d" have compiled to a rule that generates "abacc", a tag and then
\* the detected end string, but neither "abac" nor the empty string.
OneTagThenDetectedEnd ==
    /\ pc = "Done"
    /\ error = NoError_
    /\ \E k \in Emitted("TriggeredTagsFormat") :
           /\ conv.visits[k].format.at_least_one
           /\ conv.visits[k].format.stop_after_first
           /\ conv.visits[k].format.detected_end_strs_ = <<<<"c">>, <<"d">>>>
           /\ RuleDerives(conv.grammar_builder_, conv.visits[k].rule_id,
                  <<"a", "b", "a", "c", "c">>)
           /\ ~RuleDerives(conv.grammar_builder_, conv.visits[k].rule_id,
                  <<"a", "b", "a", "c">>)
           /\ ~RuleDerives(conv.grammar_builder_, conv.visits[k].rule_id, <<>>)

\* The rules the rule emitted for TagsWithSeparator in the general case
\* references first: the rule of the tags and the sub rule.
AllTagsRuleId(gb, v) == ExprAt(gb, SequenceElements(gb, v.rule_id)[1]).rule_id

SubRuleId(gb, v) == ExprAt(gb, SequenceElements(gb, v.rule_id)[2]).rule_id

\* The rules of the tags that the rule tags_rule references, one per
\* alternative.
TagRuleIds(gb, tags_rule) ==
    [i \in 1..Len(ExprAt(gb, RuleAt(gb, tags_rule).body).choices) |->
        ExprAt(gb,
            ExprAt(gb, ExprAt(gb, RuleAt(gb, tags_rule).body).choices[i]).elements[1]).rule_id]

\* The ends of the strings of TagsWithSeparator: the non-empty detected end
\* strings, or the empty string when there is none.
EndSet(detected_end_strs_) ==
    IF \A i \in 1..Len(detected_end_strs_) : detected_end_strs_[i] = <<>>
    THEN {<<>>}
    ELSE {detected_end_strs_[i] : i \in 1..Len(detected_end_strs_)} \ {<<>>}

\* s is a string of one of the rules.
InTags(gb, tag_rule_ids, s) ==
    \E i \in 1..Len(tag_rule_ids) : RuleDerives(gb, tag_rule_ids[i], s)

\* s is (separator tag)* end.
RECURSIVE InSeparatedRest(_, _, _, _, _)
InSeparatedRest(gb, tag_rule_ids, separator, ends, s) ==
    \/ s \in ends
    \/ /\ Len(s) > Len(separator)
       /\ SubSeq(s, 1, Len(separator)) = separator
       /\ \E j \in (Len(separator) + 1)..Len(s) :
              /\ InTags(gb, tag_rule_ids, SubSeq(s, Len(separator) + 1, j))
              /\ InSeparatedRest(gb, tag_rule_ids, separator, ends, SubSeq(s, j + 1, Len(s)))

\* s is tag (separator tag)* end, or end alone when at_least_one is false.
InSeparatedLanguage(gb, tag_rule_ids, format, s) ==
    \/ ~format.at_least_one /\ s \in EndSet(format.detected_end_strs_)
    \/ \E j \in 1..Len(s) :
           /\ InTags(gb, tag_rule_ids, SubSeq(s, 1, j))
           /\ InSeparatedRest(gb, tag_rule_ids, format.separator,
                  EndSet(format.detected_end_strs_), SubSeq(s, j + 1, Len(s)))

\* The rule of the tags holds a reference to the rule of every tag, in
\* order.
IsTagsRule(gb, v, tags_rule, tag_rule_ids) ==
    /\ RuleAt(gb, tags_rule).name = "tags_with_separator_tags"
    /\ Len(tag_rule_ids) = Len(v.format.tags)
    /\ \A i \in 1..Len(tag_rule_ids) : ReturnedWithin(v, v.format.tags[i], tag_rule_ids[i])

\* The rule the call v of Visit has emitted for TagsWithSeparator in the
\* general case: Choices(Sequence(tags_rule, RuleRef(sub_rule))) with the
\* end as one more choice iff at_least_one is false.
SeparatedTagsLowered(gb, v) ==
    /\ RuleAt(gb, v.rule_id).name = "tags_with_separator"
    /\ ExprAt(gb, RuleAt(gb, v.rule_id).body).type = "choices"
    /\ Len(ExprAt(gb, RuleAt(gb, v.rule_id).body).choices)
           = (IF v.format.at_least_one THEN 1 ELSE 2)
    /\ Len(SequenceElements(gb, v.rule_id)) = 2
    /\ RuleAt(gb, SubRuleId(gb, v)).name = "tags_with_separator_sub"
    /\ IsTagsRule(gb, v, AllTagsRuleId(gb, v), TagRuleIds(gb, AllTagsRuleId(gb, v)))
    /\ \A s \in LoweringStrings :
           RuleDerives(gb, v.rule_id, s)
               <=> InSeparatedLanguage(gb, TagRuleIds(gb, AllTagsRuleId(gb, v)), v.format, s)
    /\ v.format.at_least_one =>
           \A s \in LoweringStrings :
               RuleDerives(gb, v.rule_id, s) =>
                   \E i \in 1..Len(s) : \E j \in i..Len(s) :
                       InTags(gb, TagRuleIds(gb, AllTagsRuleId(gb, v)), SubSeq(s, i, j))

\* TagsWithSeparator of the general case: stop_after_first is false and the
\* separator is none of the detected end strings.
GeneralCase(format) ==
    /\ ~format.stop_after_first
    /\ \A i \in 1..Len(format.detected_end_strs_) :
           format.detected_end_strs_[i] # format.separator

\* C16: in the general case of TagsWithSeparator the rules emitted generate
\* the strings tag (separator tag)* end, each tag a string of one of the
\* converted tags and end one of the non-empty detected end strings, or
\* empty when there is none, and the string end alone iff at_least_one is
\* false; with at_least_one every string generated contains a tag.
SeparatedTagsLowering ==
    Ran("convert") =>
        \A k \in Emitted("TagsWithSeparatorFormat") :
            GeneralCase(conv.visits[k].format)
                => SeparatedTagsLowered(conv.grammar_builder_, conv.visits[k])

\* C16: TagsWithSeparator with the tags "a" and "ba", the separator "," and
\* the detected end strings "" and "c" have compiled, at_least_one being
\* false, to a rule that generates "c", "ac" and "a,bac", but neither the
\* empty string nor "a,a".
SeparatedTagsThenEnd ==
    /\ pc = "Done"
    /\ error = NoError_
    /\ \E k \in Emitted("TagsWithSeparatorFormat") :
           /\ GeneralCase(conv.visits[k].format)
           /\ ~conv.visits[k].format.at_least_one
           /\ conv.visits[k].format.separator = <<",">>
           /\ conv.visits[k].format.detected_end_strs_ = <<<<>>, <<"c">>>>
           /\ Len(conv.visits[k].format.tags) = 2
           /\ RuleDerives(conv.grammar_builder_, conv.visits[k].rule_id, <<"c">>)
           /\ RuleDerives(conv.grammar_builder_, conv.visits[k].rule_id, <<"a", "c">>)
           /\ RuleDerives(conv.grammar_builder_, conv.visits[k].rule_id,
                  <<"a", ",", "b", "a", "c">>)
           /\ ~RuleDerives(conv.grammar_builder_, conv.visits[k].rule_id, <<>>)
           /\ ~RuleDerives(conv.grammar_builder_, conv.visits[k].rule_id, <<"a", ",", "a">>)

\* The expression x was added by the call v of Visit itself: during v, and
\* during no call of Visit inside v.
AddedBy(v, x) ==
    /\ ~v.hit
    /\ v.exprs_before < x
    /\ x <= v.exprs_after
    /\ \A k \in 1..Len(conv.visits) :
           (v.call < conv.visits[k].call /\ conv.visits[k].ret < v.ret)
               => ~(conv.visits[k].exprs_before < x /\ x <= conv.visits[k].exprs_after)

\* The tag dispatch ends in exactly one way: at the end of the input with no
\* stop string, or at one of its stop strings, none of them empty.
OneTerminationMode(tag_dispatch) ==
    \/ /\ tag_dispatch.stop_eos
       /\ tag_dispatch.stop_str = <<>>
    \/ /\ ~tag_dispatch.stop_eos
       /\ tag_dispatch.stop_str # <<>>
       /\ \A i \in 1..Len(tag_dispatch.stop_str) : tag_dispatch.stop_str[i] # <<>>

\* The tag dispatch is the one of the format of the call that added it.
DispatchOf(format, tag_dispatch) ==
    \/ /\ format.kind = "AnyTextFormat"
       /\ format.detected_end_strs_ # <<>>
       /\ ~tag_dispatch.loop_after_dispatch
       /\ ~tag_dispatch.stop_eos
       /\ tag_dispatch.tag_rule_pairs = <<>>
    \/ /\ format.kind = "TriggeredTagsFormat"
       /\ tag_dispatch.loop_after_dispatch = ~format.stop_after_first
       /\ tag_dispatch.stop_eos <=> format.detected_end_strs_ = <<>>

\* C17: every tag dispatch emitted for an input that passed the analysis
\* either stops at the end of the input and has no stop string, or does not
\* and has at least one stop string, all of them non-empty; it was added for
\* an AnyText with detected end strings, with loop_after_dispatch false, or
\* for a TriggeredTags, with loop_after_dispatch the negation of
\* stop_after_first and stop_eos iff there is no detected end string.
DispatchTermination ==
    Ran("convert") =>
        \A x \in 1..Len(conv.grammar_builder_.exprs) :
            conv.grammar_builder_.exprs[x].type = "tag_dispatch" =>
                /\ OneTerminationMode(conv.grammar_builder_.exprs[x].tag_dispatch)
                /\ \E k \in 1..Len(conv.visits) :
                       /\ AddedBy(conv.visits[k], x)
                       /\ DispatchOf(conv.visits[k].format,
                              conv.grammar_builder_.exprs[x].tag_dispatch)

\* C17: a conversion has emitted a tag dispatch for an AnyText one of whose
\* detected end strings is empty, which stops at the other ones, and a tag
\* dispatch for a TriggeredTags that stops at the end of the input.
DispatchesOfBothModes ==
    /\ Ran("convert")
    /\ \E x \in 1..Len(conv.grammar_builder_.exprs) : \E k \in 1..Len(conv.visits) :
           /\ conv.grammar_builder_.exprs[x].type = "tag_dispatch"
           /\ AddedBy(conv.visits[k], x)
           /\ conv.visits[k].format.kind = "AnyTextFormat"
           /\ \E i \in 1..Len(conv.visits[k].format.detected_end_strs_) :
                  conv.visits[k].format.detected_end_strs_[i] = <<>>
           /\ Len(conv.grammar_builder_.exprs[x].tag_dispatch.stop_str)
                  < Len(conv.visits[k].format.detected_end_strs_)
    /\ \E x \in 1..Len(conv.grammar_builder_.exprs) : \E k \in 1..Len(conv.visits) :
           /\ conv.grammar_builder_.exprs[x].type = "tag_dispatch"
           /\ AddedBy(conv.visits[k], x)
           /\ conv.visits[k].format.kind = "TriggeredTagsFormat"
           /\ conv.grammar_builder_.exprs[x].tag_dispatch.stop_eos

\* The top-level value is not a structural tag: it is not an object, its
\* type field is not the string "structural_tag", or it has no format field.
IllFormedTop(value) ==
    \/ value.t # "object"
    \/ /\ value.t = "object"
       /\ Has(value.v, "type")
       /\ \/ value.v.type.t # "string"
          \/ value.v.type.t = "string" /\ value.v.type.v # T_structural_tag
    \/ /\ value.t = "object"
       /\ ~Has(value.v, "format")

\* The parse has returned an error of the type, the only stage that ran.
ParseFailedWith(type) ==
    /\ stages = <<"parse">>
    /\ pc = "Done"
    /\ error.type = type
    /\ parsed_tag = NoFormat

\* The parse has returned what ParseFormat returns for the value.
ParsedAs(format) ==
    IF format.ok
    THEN /\ pc # "Done" \/ Len(stages) > 1
         /\ parsed_tag = format.val
    ELSE /\ ParseFailedWith("InvalidStructuralTagError")
         /\ error.msg = format.err

\* C18: a document that is not JSON fails with InvalidJSONError; a top-level
\* value that is not an object, has a type field that is not the string
\* "structural_tag", or has no format field fails with
\* InvalidStructuralTagError; any other document parses to what its format
\* value parses to.
TopLevelValidation ==
    Ran("parse") =>
        IF ~json.valid
        THEN ParseFailedWith("InvalidJSONError")
        ELSE IF IllFormedTop(json.value)
        THEN ParseFailedWith("InvalidStructuralTagError")
        ELSE ParsedAs(ParseFormat(json.value.v.format))

\* C18: a document with a format field and the type "tag" has failed to
\* parse because of its type.
WrongTopLevelType ==
    /\ json.valid
    /\ json.value.t = "object"
    /\ Has(json.value.v, "format")
    /\ Has(json.value.v, "type")
    /\ json.value.v.type.t = "string"
    /\ json.value.v.type.v = T_tag
    /\ ParseFailedWith("InvalidStructuralTagError")
    /\ error.msg = "Structural tag's type must be a string \"structural_tag\""

\* The rule of a state of the product automaton: the first pass adds the
\* rules of the states in order to the builder of the converter.
StateRuleId(state) == Len(conv.grammar_builder_.rules) + state

\* The states of the product automaton.
ProductStates == 0..(NumStates(rx.result_fsm_result.val.fsm) - 1)

\* C19: the rule emitted for a state of the product automaton derives the
\* empty string iff the state is accepting; a non-accepting state without
\* an outgoing edge does not let the grammar accept a string that ends in
\* it.
StateRuleEmptyIffAccepting ==
    RegexRuleBuilt =>
        \A state \in ProductStates :
            RuleDerives(rx.result.st.grammar_builder_, StateRuleId(state), <<>>)
                <=> IsEndState(rx.result_fsm_result.val, state)

\* C19: the path has returned a rule for ab without "b"; the state of the
\* product automaton reached by "a" is not accepting and has no edge, its
\* rule derives the empty string, and the rule returned generates "a",
\* which the pattern does not match.
DeadEndStateAccepts ==
    /\ RegexRuleBuilt
    /\ rx.format = RegexFormat(P_ab, <<<<"b">>>>)
    /\ \E state \in ProductStates :
           /\ ~IsEndState(rx.result_fsm_result.val, state)
           /\ GetEdges(rx.result_fsm_result.val.fsm, state) = <<>>
           /\ RuleDerives(rx.result.st.grammar_builder_, StateRuleId(state), <<>>)
    /\ RuleDerives(rx.result.st.grammar_builder_, rx.result.rule_id, <<"a">>)
    /\ ~FSMAccepts(rx.regex_fsm, <<"a">>)

\* The trie of the excluded strings of rx is built.
TrieBuilt ==
    rx.step \in {"BackEdges", "RemoveDead", "Intersect", "Rules"}
    \/ (rx.step = "Done" /\ rx.regex_fsm # NoFSM)

\* The states of the exclusion automaton that are not dead.
LiveStates == (0..(NumStates(rx.exclude_fsm) - 1)) \ rx.dead_states

\* The edges of the list that carry the byte b.
EdgesOn(edges, b) == {i \in 1..Len(edges) : edges[i].min <= b /\ b <= edges[i].max}

\* Every edge of the list carries one byte of the alphabet.
SingleByteEdges(edges) ==
    \A i \in 1..Len(edges) : edges[i].min = edges[i].max /\ edges[i].min \in 0..MaxByte

\* After step 2 every state that is not dead has exactly one edge for every
\* byte, and every edge carries a single byte.
TotalAfterBackEdges ==
    rx.step = "RemoveDead" =>
        \A state \in LiveStates :
            /\ SingleByteEdges(GetEdges(rx.exclude_fsm, state))
            /\ \A b \in 0..MaxByte :
                   Cardinality(EdgesOn(GetEdges(rx.exclude_fsm, state), b)) = 1

\* After step 3 every state that is not dead has at most one edge for every
\* byte, no edge leads to a dead state, and the accepting states are the
\* states that are not dead.
DeterministicAfterRemoval ==
    FilterBuilt =>
        /\ \A state \in LiveStates : \A b \in 0..MaxByte :
               Cardinality(EdgesOn(GetEdges(rx.exclude_fsm, state), b)) <= 1
        /\ \A state \in 0..(NumStates(rx.exclude_fsm) - 1) :
               /\ \A i \in 1..Len(GetEdges(rx.exclude_fsm, state)) :
                      GetEdges(rx.exclude_fsm, state)[i].target \notin rx.dead_states
               /\ IsEndState(rx.exclude_filter, state) <=> state \notin rx.dead_states
        /\ rx.exclude_filter.fsm = rx.exclude_fsm
        /\ rx.exclude_filter.start = 0

\* C20: the exclusion automaton is deterministic over the bytes: state 0 is
\* never dead; after the back-edge step every state that is not dead has
\* exactly one edge for each byte, each edge carrying a single byte; after
\* the removal of the edges into dead states every state that is not dead
\* has at most one edge per byte, no edge leads to a dead state, and the
\* accepting states are exactly the states that are not dead.
ExclusionDeterministic ==
    /\ TrieBuilt => 0 \notin rx.dead_states
    /\ TotalAfterBackEdges
    /\ DeterministicAfterRemoval

\* C20: step 3 has left a state other than the start, not dead, with a
\* single edge, and two dead states.
EdgesIntoDeadRemoved ==
    /\ rx.step = "Intersect"
    /\ Cardinality(rx.dead_states) = 2
    /\ \E state \in LiveStates :
           /\ state # 0
           /\ Len(GetEdges(rx.exclude_fsm, state)) = 1

\* s ends with the string p.
EndsWith(s, p) == Len(p) <= Len(s) /\ SubSeq(s, Len(s) - Len(p) + 1, Len(s)) = p

\* The prefixes of the excluded strings of rx.
ExcludedPrefixes ==
    UNION {{SubSeq(rx.format.excluded_strs[i], 1, k) :
               k \in 0..Len(rx.format.excluded_strs[i])} :
           i \in 1..Len(rx.format.excluded_strs)}

\* The states of the exclusion filter after the bytes of s.
FilterStates(s) == FSMRun(rx.exclude_filter.fsm, {rx.exclude_filter.start}, s)

\* The state q is reached in the trie of the excluded strings by the edges
\* of p.
TrieReaches(p, q) == FSMRun(BuildTrie(rx.format.excluded_strs).exclude_fsm, {0}, p) = {q}

\* A state other than the start that the filter is in after s is reached by
\* the trie edges of a prefix of an excluded string that s ends with.
StateIsSuffixRead(s) ==
    \A q \in FilterStates(s) \ {0} :
        \E p \in ExcludedPrefixes : TrieReaches(p, q) /\ EndsWith(s, p)

\* The filter has a transition for the last byte of s unless s ends with an
\* excluded string.
MissingOnlyAtExcluded(s) ==
    (s # <<>> /\ FilterStates(SubSeq(s, 1, Len(s) - 1)) # {} /\ FilterStates(s) = {}) =>
        \E i \in 1..Len(rx.format.excluded_strs) : EndsWith(s, rx.format.excluded_strs[i])

\* C21: the exclusion automaton never over-rejects: a state other than the
\* start reached by k trie edges is entered only when the last k bytes read
\* are a prefix of an excluded string, a transition is missing only when
\* the bytes read end with an excluded string, and every byte string that
\* contains no excluded string is accepted.
NeverOverRejects ==
    FilterBuilt =>
        \A s \in TestStrings :
            /\ StateIsSuffixRead(s)
            /\ MissingOnlyAtExcluded(s)
            /\ ~ContainsAny(s, rx.format.excluded_strs) => FSMAccepts(rx.exclude_filter, s)

\* C21: the filter without "aab" has read "aaa", which holds no excluded
\* string, has fallen back to the state of "a", and accepts it.
FallbackStillAccepts ==
    /\ FilterBuilt
    /\ rx.format.excluded_strs = <<<<"a", "a", "b">>>>
    /\ FilterStates(<<"a", "a", "a">>) = {1}
    /\ TrieReaches(<<"a">>, 1)
    /\ FSMAccepts(rx.exclude_filter, <<"a", "a", "a">>)

\* The format is built from ConstString, AnyText, Sequence, Or and Tag only.
RECURSIVE NonLossy(_)
NonLossy(format) ==
    CASE format.kind \in {"ConstStringFormat", "AnyTextFormat"} -> TRUE
      [] format.kind \in {"SequenceFormat", "OrFormat"} ->
           \A i \in 1..Len(format.elements) : NonLossy(format.elements[i])
      [] format.kind = "TagFormat" -> NonLossy(format.content)
      [] OTHER -> FALSE

\* C22: the fingerprint is injective on the formats built from ConstString,
\* AnyText, Sequence, Or and Tag: two such formats the converter has
\* visited with equal fingerprints are equal, whatever their strings hold.
FingerprintInjective ==
    Ran("convert") =>
        \A k1 \in 1..Len(conv.visits) : \A k2 \in 1..Len(conv.visits) :
            (/\ NonLossy(conv.visits[k1].format)
             /\ NonLossy(conv.visits[k2].format)
             /\ conv.visits[k1].fingerprint = conv.visits[k2].fingerprint)
                => conv.visits[k1].format = conv.visits[k2].format

\* C22: the sequence of "a" and "b" and the sequence of "a,CS:b" have the
\* fingerprint SQ[CS:a,CS:b,]; the second was answered from the cache with
\* the rule of the first, and the grammar returned accepts "ab" but not
\* "a,CS:b".
DelimiterCollision ==
    /\ pc = "Done"
    /\ error = NoError_
    /\ \E k1 \in 1..Len(conv.visits) : \E k2 \in 1..Len(conv.visits) :
           /\ conv.visits[k1].format.kind = "SequenceFormat"
           /\ conv.visits[k2].format.kind = "SequenceFormat"
           /\ Len(conv.visits[k1].format.elements) = 2
           /\ Len(conv.visits[k2].format.elements) = 1
           /\ conv.visits[k2].format.elements[1].kind = "ConstStringFormat"
           /\ conv.visits[k1].fingerprint = conv.visits[k2].fingerprint
           /\ conv.visits[k1].fingerprint
                  = <<"S", "Q", "[", "C", "S", ":", "a", ",", "C", "S", ":", "b", ",", "]">>
           /\ ~conv.visits[k1].hit
           /\ conv.visits[k2].hit
           /\ conv.visits[k2].rule_id = conv.visits[k1].rule_id
    /\ Accepts(grammar, <<"a", "b">>)
    /\ ~Accepts(grammar, <<"a", ",", "C", "S", ":", "b">>)

\* The elements the parsed elements of an array inline to: the elements of
\* a Sequence in its place, any other format as it is, in order.
RECURSIVE Inlined(_)
Inlined(formats) ==
    IF formats = <<>>
    THEN <<>>
    ELSE (IF Head(formats).kind = "SequenceFormat"
          THEN Head(formats).elements
          ELSE <<Head(formats)>>) \o Inlined(Tail(formats))

\* What ParseFormat returns for every value of the array.
ParsedEach(array) == [i \in 1..Len(array) |-> ParseFormat(array[i]).val]

\* No Sequence of the AST has a Sequence as a direct element.
NoSequenceInSequence(root) ==
    \A p \in Paths(root) :
        GetAt(root, p).kind = "SequenceFormat" =>
            \A i \in 1..Len(GetAt(root, p).elements) :
                GetAt(root, p).elements[i].kind # "SequenceFormat"

\* The object parses to a Sequence or an Or from an elements array.
ParsesElements(value, kind) ==
    /\ value.t = "object"
    /\ Has(value.v, "elements")
    /\ ParseFormat(value).ok
    /\ ParseFormat(value).val.kind = kind

\* The object parses to a Tag.
ParsesTag(value) ==
    /\ value.t = "object"
    /\ Has(value.v, "content")
    /\ ParseFormat(value).ok
    /\ ParseFormat(value).val.kind = "TagFormat"

\* The parse of the value at every place of the document: a Sequence holds
\* the parsed elements of its array with the nested sequences inlined, an Or
\* and a Tag hold what their elements and content parse to.
FlattenedInPlace(value) ==
    \A p \in JsonPaths(value) :
        /\ ParsesElements(JsonAt(value, p), "SequenceFormat") =>
               ParseFormat(JsonAt(value, p)).val.elements
                   = Inlined(ParsedEach(JsonAt(value, p).v.elements.v))
        /\ ParsesElements(JsonAt(value, p), "OrFormat") =>
               ParseFormat(JsonAt(value, p)).val.elements
                   = ParsedEach(JsonAt(value, p).v.elements.v)
        /\ ParsesTag(JsonAt(value, p)) =>
               ParseFormat(JsonAt(value, p)).val.content
                   = ParseFormat(JsonAt(value, p).v.content).val

\* C23: after a successful parse no Sequence has a Sequence as a direct
\* element; a Sequence holds the elements of its nested sequences inlined in
\* place and in order, so that a flat input is parsed as it is; the
\* sequences inside an Or or a Tag are kept as they are.
SequenceFlattening ==
    (pc = "Analyze" \/ Ran("analyze")) =>
        /\ NoSequenceInSequence(parsed_tag)
        /\ FlattenedInPlace(json.value)

\* The object parses to a Sequence and a value of its array does as `inner`
\* says.
HoldsSequence(value, inner(_)) ==
    /\ ParsesElements(value, "SequenceFormat")
    /\ \E i \in 1..Len(value.v.elements.v) : inner(value.v.elements.v[i])

IsSequenceJson(value) == ParsesElements(value, "SequenceFormat")

HoldsNestedSequence(value) == HoldsSequence(value, IsSequenceJson)

\* C23: a document with a sequence in a sequence in a sequence has parsed
\* to an AST without a Sequence in a Sequence.
DeepSequenceInlined ==
    /\ pc = "Analyze"
    /\ \E p \in JsonPaths(json.value) :
           HoldsSequence(JsonAt(json.value, p), HoldsNestedSequence)
    /\ NoSequenceInSequence(parsed_tag)

\* The general case of TriggeredTags: text mixed with the tags.
GeneralTriggeredTags(format) == ~(format.at_least_one /\ format.stop_after_first)

\* The tag dispatch of the rule the call v has emitted in the general case:
\* the body of the rule, or with at_least_one the body of the rule that
\* follows the first tag.
DispatchOfVisit(gb, v) ==
    IF v.format.at_least_one
    THEN ExprAt(gb, RuleAt(gb, ExprAt(gb, SequenceElements(gb, v.rule_id)[2]).rule_id).body)
    ELSE ExprAt(gb, RuleAt(gb, v.rule_id).body)

\* The tags of the format whose begin the trigger is a prefix of, in order.
OwnedTags(format, trigger) ==
    SelectSeq([j \in 1..Len(format.tags) |-> j],
        LAMBDA j : IsPrefix(trigger, format.tags[j].begin))

\* The sequence emitted for a tag in the group of the trigger: the begin
\* without the trigger, then the rule of the content.
IsGroupChoice(gb, v, elements, trigger, tag) ==
    /\ Len(elements) >= 2
    /\ ExprAt(gb, elements[1]).type = "byte_string"
    /\ trigger \o ExprAt(gb, elements[1]).bytes = tag.begin
    /\ ExprAt(gb, elements[2]).type = "rule_ref"
    /\ ReturnedWithin(v, tag.content, ExprAt(gb, elements[2]).rule_id)

\* The rule of the group of a trigger: one alternative for every tag of the
\* trigger, in order.
IsTriggerGroup(gb, v, rule, trigger, owned) ==
    /\ rule.name = "triggered_tags_group"
    /\ ExprAt(gb, rule.body).type = "choices"
    /\ Len(ExprAt(gb, rule.body).choices) = Len(owned)
    /\ \A k \in 1..Len(owned) :
           IsGroupChoice(gb, v, ExprAt(gb, ExprAt(gb, rule.body).choices[k]).elements,
               trigger, v.format.tags[owned[k]])

\* The pairs of the dispatch: the triggers of the format in order, each with
\* the rule of its group.
IsPartitionedDispatch(gb, v, expr) ==
    /\ expr.type = "tag_dispatch"
    /\ Len(expr.tag_dispatch.tag_rule_pairs) = Len(v.format.triggers)
    /\ \A i \in 1..Len(v.format.triggers) :
           /\ expr.tag_dispatch.tag_rule_pairs[i][1] = v.format.triggers[i]
           /\ IsTriggerGroup(gb, v, RuleAt(gb, expr.tag_dispatch.tag_rule_pairs[i][2]),
                  v.format.triggers[i], OwnedTags(v.format, v.format.triggers[i]))
    /\ \A j \in 1..Len(v.format.tags) :
           Cardinality({i \in 1..Len(v.format.triggers) :
               IsPrefix(v.format.triggers[i], v.format.tags[j].begin)}) = 1

\* C24: in the general case of TriggeredTags the tags are partitioned by
\* trigger: every tag is in the group of exactly one trigger, a prefix of
\* its begin; the byte string emitted for the tag in the rule of the group
\* is the begin without the trigger, so that the trigger followed by it is
\* the begin; the pairs of the dispatch list the triggers in their order.
TagsPartitionedByTrigger ==
    Ran("convert") =>
        \A k \in Emitted("TriggeredTagsFormat") :
            GeneralTriggeredTags(conv.visits[k].format) =>
                IsPartitionedDispatch(conv.grammar_builder_, conv.visits[k],
                    DispatchOfVisit(conv.grammar_builder_, conv.visits[k]))

\* C24: TriggeredTags with the triggers "a" and "b" and the tags "ab" and
\* "b" have compiled to a dispatch of two groups, the first with the byte
\* string "b", the second with the empty one.
TwoTriggerGroups ==
    /\ pc = "Done"
    /\ error = NoError_
    /\ \E k \in Emitted("TriggeredTagsFormat") :
           /\ GeneralTriggeredTags(conv.visits[k].format)
           /\ conv.visits[k].format.triggers = <<<<"a">>, <<"b">>>>
           /\ Len(conv.visits[k].format.tags) = 2
           /\ OwnedTags(conv.visits[k].format, <<"a">>) = <<1>>
           /\ OwnedTags(conv.visits[k].format, <<"b">>) = <<2>>
           /\ IsPartitionedDispatch(conv.grammar_builder_, conv.visits[k],
                  DispatchOfVisit(conv.grammar_builder_, conv.visits[k]))

\* The alternatives of the rule a pair of the dispatch refers to.
GroupChoices(gb, pair) == ExprAt(gb, RuleAt(gb, pair[2]).body).choices

\* C25: in the general case of TriggeredTags every rule a pair of the
\* dispatch refers to has at least one alternative: every trigger of an
\* accepted input has at least one tag, and no triggered_tags_group rule is
\* emitted with an empty list of choices.
EveryTriggerOwnsATag ==
    Ran("convert") =>
        \A k \in Emitted("TriggeredTagsFormat") :
            GeneralTriggeredTags(conv.visits[k].format) =>
                /\ \A i \in 1..Len(conv.visits[k].format.triggers) :
                       OwnedTags(conv.visits[k].format, conv.visits[k].format.triggers[i])
                           # <<>>
                /\ \A i \in 1..Len(DispatchOfVisit(conv.grammar_builder_,
                                       conv.visits[k]).tag_dispatch.tag_rule_pairs) :
                       GroupChoices(conv.grammar_builder_,
                           DispatchOfVisit(conv.grammar_builder_,
                               conv.visits[k]).tag_dispatch.tag_rule_pairs[i]) # <<>>

\* C25: a grammar is returned for TriggeredTags with the triggers "a" and
\* "b" and one tag, of the begin "ab"; the pair of the trigger "b" refers to
\* a triggered_tags_group rule without an alternative.
TriggerWithoutTag ==
    /\ pc = "Done"
    /\ error = NoError_
    /\ structural_tag.kind = "TriggeredTagsFormat"
    /\ structural_tag.triggers = <<<<"a">>, <<"b">>>>
    /\ Len(structural_tag.tags) = 1
    /\ structural_tag.tags[1].begin = <<"a", "b">>
    /\ GeneralTriggeredTags(structural_tag)
    /\ \E k \in Emitted("TriggeredTagsFormat") :
           /\ conv.visits[k].format = structural_tag
           /\ DispatchOfVisit(conv.grammar_builder_,
                  conv.visits[k]).tag_dispatch.tag_rule_pairs[2][1] = <<"b">>
           /\ RuleAt(conv.grammar_builder_,
                  DispatchOfVisit(conv.grammar_builder_,
                      conv.visits[k]).tag_dispatch.tag_rule_pairs[2][2]).name
                  = "triggered_tags_group"
           /\ GroupChoices(conv.grammar_builder_,
                  DispatchOfVisit(conv.grammar_builder_,
                      conv.visits[k]).tag_dispatch.tag_rule_pairs[2]) = <<>>

\* None of the eight variants of the inference accepts the object.
NoneAccepts(obj) ==
    \A i \in 1..Len(InferenceOrder(obj)) : ~InferenceOrder(obj)[i].ok

\* The values of the document that are objects without a type that no
\* variant accepts.
RejectedUntyped ==
    {p \in JsonPaths(json.value) :
        /\ IsUntypedObject(JsonAt(json.value, p))
        /\ NoneAccepts(JsonAt(json.value, p).v)}

\* The document is a structural tag whose format is an object without a
\* type that no variant accepts.
TopFormatRejected ==
    /\ HasTopFormat
    /\ IsUntypedObject(json.value.v.format)
    /\ NoneAccepts(json.value.v.format.v)

\* C26 as stated: when none of the eight variants accepts a format object
\* without a type, the error ParseFormat returns is the error of the last
\* variant attempted, TagsWithSeparator.
LastVariantErrorSurfaced ==
    Ran("parse") =>
        /\ \A p \in RejectedUntyped :
               /\ ~ParseFormat(JsonAt(json.value, p)).ok
               /\ ParseFormat(JsonAt(json.value, p)).err
                      = ParseTagsWithSeparatorFormat(JsonAt(json.value, p).v).err
        /\ TopFormatRejected =>
               error = InvalidStructuralTagError(
                           ParseTagsWithSeparatorFormat(json.value.v.format.v).err)

\* C26 amended: when none of the eight variants accepts a format object
\* without a type, the errors of all the attempts are discarded, that of
\* TagsWithSeparator included, and ParseFormat returns an error of its own,
\* "Invalid format" (followed in the code by the serialized value).
AllVariantErrorsDiscarded ==
    Ran("parse") =>
        /\ \A p \in RejectedUntyped :
               /\ ~ParseFormat(JsonAt(json.value, p)).ok
               /\ ParseFormat(JsonAt(json.value, p)).err = "Invalid format"
        /\ TopFormatRejected =>
               /\ stages = <<"parse">>
               /\ pc = "Done"
               /\ error = InvalidStructuralTagError("Invalid format")

\* C26: the parse of a document whose format no variant accepts has
\* returned "Invalid format", not the error of TagsWithSeparator.
InferenceFailed ==
    /\ Ran("parse")
    /\ TopFormatRejected
    /\ error.msg = "Invalid format"
    /\ ParseTagsWithSeparatorFormat(json.value.v.format.v).err
           = "Tags with separator format must have a tags field with an array"

\* The analyzed format differs from the parsed one in annotations only:
\* the flag of a Sequence or an Or, the detected end strings, and the end of
\* a Tag, cleared when its content is unlimited.
RECURSIVE SameButAnnotations(_, _)
SameButAnnotations(analyzed, parsed) ==
    /\ analyzed.kind = parsed.kind
    /\ CASE analyzed.kind = "AnyTextFormat" ->
              analyzed.excluded_strs = parsed.excluded_strs
         [] analyzed.kind \in {"SequenceFormat", "OrFormat"} ->
              /\ Len(analyzed.elements) = Len(parsed.elements)
              /\ \A i \in 1..Len(parsed.elements) :
                     SameButAnnotations(analyzed.elements[i], parsed.elements[i])
         [] analyzed.kind = "TagFormat" ->
              /\ analyzed.begin = parsed.begin
              /\ SameButAnnotations(analyzed.content, parsed.content)
              /\ \/ analyzed.end = parsed.end
                 \/ analyzed.end = <<>> /\ UnlimitedStatus(analyzed.content)
         [] analyzed.kind = "TriggeredTagsFormat" ->
              /\ analyzed.triggers = parsed.triggers
              /\ analyzed.excludes = parsed.excludes
              /\ analyzed.at_least_one = parsed.at_least_one
              /\ analyzed.stop_after_first = parsed.stop_after_first
              /\ Len(analyzed.tags) = Len(parsed.tags)
              /\ \A i \in 1..Len(parsed.tags) :
                     SameButAnnotations(analyzed.tags[i], parsed.tags[i])
         [] analyzed.kind = "TagsWithSeparatorFormat" ->
              /\ analyzed.separator = parsed.separator
              /\ analyzed.at_least_one = parsed.at_least_one
              /\ analyzed.stop_after_first = parsed.stop_after_first
              /\ Len(analyzed.tags) = Len(parsed.tags)
              /\ \A i \in 1..Len(parsed.tags) :
                     SameButAnnotations(analyzed.tags[i], parsed.tags[i])
         [] OTHER -> analyzed = parsed

\* C27: Analyze, whether it succeeds or fails, changes only the flag
\* is_unlimited of a Sequence or an Or, the detected end strings of an
\* AnyText, a TriggeredTags or a TagsWithSeparator, and the end of a Tag
\* with unlimited content; the variants, the number and order of elements
\* and tags, and every begin, value, schema, pattern, trigger, separator,
\* excluded string and flag are what the parser returned.
AnalyzerFrame ==
    Ran("analyze") => SameButAnnotations(structural_tag, parsed_tag)

\* C27: an analysis has failed after it has changed an annotation of an
\* AST that holds an AnyText with excluded strings.
AnalysisFailedAfterAnnotating ==
    /\ Ran("analyze")
    /\ AnalysisRejected
    /\ structural_tag # parsed_tag
    /\ \E p \in Paths(parsed_tag) :
           /\ GetAt(parsed_tag, p).kind = "AnyTextFormat"
           /\ GetAt(parsed_tag, p).excluded_strs # <<>>

(***************************************************************************)
(* C28: the order of the analyzer's walk                                   *)
(***************************************************************************)
\* stack_ is the chain of the formats from the root to the format of the
\* activation of VisitSub that runs, that format on top.
StackIsAncestorChain ==
    /\ Len(an.stack_) = Len(an.frames)
    /\ an.stack_[Len(an.stack_)] = TopFrame.path
    /\ \A k \in 1..Len(an.stack_) : an.stack_[k] = SubSeq(TopFrame.path, 1, k - 1)

\* Every Tag whose VisitSub has not returned has the end strings it was
\* parsed with.
OpenTagsKeepEnd ==
    \A k \in 1..Len(an.stack_) :
        (k < Len(an.stack_) \/ an.step = "VisitSub")
        /\ GetAt(an.root, an.stack_[k]).kind = "TagFormat"
        => GetAt(an.root, an.stack_[k]).end = GetAt(parsed_tag, an.stack_[k]).end

\* C28: whenever VisitSub runs, stack_ holds exactly the formats from the
\* root to the visited format, that format on top; when Analyze has returned,
\* with or without an error, stack_ is empty; the end strings of a Tag are
\* cleared only after the visit of its content has returned, so that the
\* formats that read the end strings of the nearest enclosing Tag read the
\* parsed ones.
AnalyzerOrdering ==
    /\ an.step = "VisitSub" => StackIsAncestorChain
    /\ an.step = "Done" => an.stack_ = <<>>
    /\ an.step \in {"Visit", "VisitSub", "Return"} => OpenTagsKeepEnd
    /\ an.step = "VisitSub"
       /\ TopFormat.kind \in {"AnyTextFormat", "TriggeredTagsFormat", "TagsWithSeparatorFormat"}
       => DetectEndStrings(an.root, an.stack_) = DetectEndStrings(parsed_tag, an.stack_)

\* Analyze has returned an error after it cleared the end strings of a Tag
\* of a Sequence whose content it had visited.
AnalysisFailedAfterClearing ==
    /\ an.step = "Done"
    /\ an.result.has_value
    /\ an.stack_ = <<>>
    /\ an.root.kind = "SequenceFormat"
    /\ \E i \in 1..Len(an.root.elements) :
           /\ an.root.elements[i].kind = "TagFormat"
           /\ an.root.elements[i].end = <<>>
           /\ parsed_tag.elements[i].end # <<>>
           /\ an.root.elements[i].content.kind = "AnyTextFormat"
           /\ an.root.elements[i].content.detected_end_strs_ = parsed_tag.elements[i].end

(***************************************************************************)
(* C29: AnyText and the excludes field                                     *)
(***************************************************************************)
\* obj has an excludes field that is an array of strings.
HasExcludedStrings(obj) ==
    /\ Has(obj, "excludes")
    /\ obj.excludes.t = "array"
    /\ \A i \in 1..Len(obj.excludes.v) : obj.excludes.v[i].t = "string"

\* value is an object whose type is the string "any_text".
IsTypedAnyText(value) ==
    /\ value.t = "object"
    /\ Has(value.v, "type")
    /\ value.v.type.t = "string"
    /\ value.v.type.v = T_any_text

\* ParseFormat gives an AnyText for value.
ParsesToAnyText(value) ==
    ParseFormat(value).ok /\ ParseFormat(value).val.kind = "AnyTextFormat"

\* What C29 says of one value of the document.
AnyTextByExcludes(value) ==
    /\ IsUntypedObject(value) /\ ParsesToAnyText(value) =>
           /\ HasExcludedStrings(value.v)
           /\ ParseFormat(value).val = AnyTextFormat(StringsOf(value.v.excludes.v))
           /\ ~ParseTagFormat(value.v).ok
           /\ ~ParseConstStringFormat(value.v).ok
           /\ ~ParseJSONSchemaFormat(value.v).ok
    /\ IsUntypedObject(value) /\ ~Has(value.v, "excludes") => ~ParsesToAnyText(value)
    /\ IsTypedAnyText(value) /\ ~Has(value.v, "excludes") =>
           ParseFormat(value) = ResultOk(AnyTextFormat(<<>>))

\* C29: an object without a type parses to an AnyText only when it has an
\* excludes field that is an array of strings and Tag, ConstString and
\* JSONSchema have rejected it; without excludes, as the empty object, it
\* never parses to an AnyText; an object of type "any_text" without excludes
\* parses to the AnyText with no excluded string.
AnyTextInference ==
    Ran("parse") =>
        /\ \A p \in JsonPaths(json.value) : AnyTextByExcludes(JsonAt(json.value, p))
        /\ HasTopFormat /\ IsUntypedObject(json.value.v.format)
           /\ parsed_tag.kind = "AnyTextFormat"
           => /\ HasExcludedStrings(json.value.v.format.v)
              /\ parsed_tag.excluded_strs = StringsOf(json.value.v.format.v.excludes.v)
        /\ HasTopFormat /\ IsUntypedObject(json.value.v.format)
           /\ ~Has(json.value.v.format.v, "excludes")
           => parsed_tag.kind # "AnyTextFormat"
        /\ HasTopFormat /\ IsTypedAnyText(json.value.v.format)
           /\ ~Has(json.value.v.format.v, "excludes")
           => parsed_tag = AnyTextFormat(<<>>) /\ error = NoError_

\* The parse has returned an Or of an AnyText of type "any_text" without
\* excludes and of an AnyText inferred from an object that has only the
\* excludes field.
AnyTextTypedAndInferred ==
    /\ Ran("parse")
    /\ HasTopFormat
    /\ json.value.v.format.t = "object"
    /\ Has(json.value.v.format.v, "elements")
    /\ json.value.v.format.v.elements.t = "array"
    /\ Len(json.value.v.format.v.elements.v) = 2
    /\ IsTypedAnyText(json.value.v.format.v.elements.v[1])
    /\ ~Has(json.value.v.format.v.elements.v[1].v, "excludes")
    /\ IsUntypedObject(json.value.v.format.v.elements.v[2])
    /\ DOMAIN json.value.v.format.v.elements.v[2].v = {"excludes"}
    /\ parsed_tag.kind = "OrFormat"
    /\ parsed_tag.elements[1] = AnyTextFormat(<<>>)
    /\ parsed_tag.elements[2] = AnyTextFormat(<<<<"b">>>>)

(***************************************************************************)
(* C30: TagsWithSeparator, the special case                                *)
(***************************************************************************)
\* TagsWithSeparator of the special case: stop_after_first, or a non-empty
\* detected end string and the separator among the detected end strings.
SpecialCase(format) ==
    \/ format.stop_after_first
    \/ /\ \E i \in 1..Len(format.detected_end_strs_) : format.detected_end_strs_[i] # <<>>
       /\ \E i \in 1..Len(format.detected_end_strs_) :
              format.detected_end_strs_[i] = format.separator

\* s is a tag followed by an end, or an end alone when at_least_one is
\* false.
InSingleTagLanguage(gb, tag_rule_ids, format, s) ==
    \/ ~format.at_least_one /\ s \in EndSet(format.detected_end_strs_)
    \/ \E j \in 0..Len(s) :
           /\ InTags(gb, tag_rule_ids, SubSeq(s, 1, j))
           /\ SubSeq(s, j + 1, Len(s)) \in EndSet(format.detected_end_strs_)

\* The names of the rules the call v of Visit has added itself: during v,
\* and during no call of Visit inside v.
RulesAddedBy(gb, v) ==
    {gb.rules[r].name : r \in
        {r \in (v.rules_before + 1)..v.rules_after :
            \A k \in 1..Len(conv.visits) :
                (v.call < conv.visits[k].call /\ conv.visits[k].ret < v.ret)
                    => ~(conv.visits[k].rules_before < r /\ r <= conv.visits[k].rules_after)}}

\* The number of alternatives of Step 2 for the format with n non-empty
\* detected end strings.
SpecialChoices(format, n) ==
    IF format.at_least_one
    THEN (IF n = 0 THEN 1 ELSE n)
    ELSE (IF n = 0 THEN 2 ELSE 2 * n)

\* The rule the call v of Visit has emitted for TagsWithSeparator in the
\* special case.
SingleTagLowered(gb, v) ==
    /\ RuleAt(gb, v.rule_id).name = "tags_with_separator"
    /\ ExprAt(gb, RuleAt(gb, v.rule_id).body).type = "choices"
    /\ Len(ExprAt(gb, RuleAt(gb, v.rule_id).body).choices)
           = SpecialChoices(v.format,
                 Len(SelectSeq(v.format.detected_end_strs_, LAMBDA e : e # <<>>)))
    /\ IsTagsRule(gb, v, AllTagsRuleId(gb, v), TagRuleIds(gb, AllTagsRuleId(gb, v)))
    /\ RulesAddedBy(gb, v) = {"tags_with_separator_tags", "tags_with_separator"}
    /\ \A s \in LoweringStrings :
           RuleDerives(gb, v.rule_id, s)
               <=> InSingleTagLanguage(gb, TagRuleIds(gb, AllTagsRuleId(gb, v)), v.format, s)

====
